---- MODULE Spec2Model ----
(***************************************************************************)
(* Model of the rlox front-end parser (molor824/rlox, crate `compiler`):   *)
(* the lazily materialised Scanner, the Parser combinators of ast/mod.rs,  *)
(* the primitives and the expression grammar built from them.              *)
(*                                                                         *)
(* Encoding.                                                               *)
(*  - A character is a string atom; a text is a sequence of characters.    *)
(*    Offsets are BYTE offsets, as in the source (usize into a String).    *)
(*  - Option<T>: <<>> is None, <<v>> is Some(v).                           *)
(*  - Scanner: [source, iter, offset].  `source` and `iter` are the        *)
(*    contents of the two shared cells (Rc<RefCell<..>>); every result,    *)
(*    failed or not, carries their contents after the call, and a          *)
(*    combinator that goes back to an older clone of the scanner takes     *)
(*    the clone's offset together with the cells' current contents.        *)
(*  - ParseResult<T>: [ok |-> TRUE, next, result] or                       *)
(*    [ok |-> FALSE, err, source, iter], err a SpanOf<Error>.              *)
(*  - Parser<T> (a boxed FnOnce) is a term [p |-> tag, ...]; a closure is  *)
(*    a record [file, k, captured values]; Call / Apply run closures.      *)
(***************************************************************************)
EXTENDS Integers, Sequences, FiniteSets, TLC

VARIABLES source, iter, cursors, last, test

vars == <<source, iter, cursors, last, test>>

(***************************************************************************)
(* Characters                                                              *)
(***************************************************************************)
NL == "\n"
CR == "\r"
TAB == "\t"
\* U+00E9 (two bytes in UTF-8) and U+5B57 (three bytes), as atoms.
CharE9 == "U+00E9"
Char5B57 == "U+5B57"

\* char::len_utf8
len_utf8(ch) ==
    CASE ch = CharE9 -> 2
      [] ch = Char5B57 -> 3
      [] OTHER -> 1

\* The indices of the characters of s that take more than one byte
wide(s) == {i \in 1..Len(s) : len_utf8(s[i]) > 1}

\* String::len / str::len: the length in bytes (one byte for each
\* character, and one more for each that takes at least 2, 3, 4 bytes)
str_len(s) ==
    LET w == wide(s)
    IN  Len(s) + Cardinality(w)
               + Cardinality({i \in w : len_utf8(s[i]) > 2})
               + Cardinality({i \in w : len_utf8(s[i]) > 3})

\* The index of the character that starts at byte `offset` of s, 0 when
\* `offset` is the end of s, lies beyond it or inside a character.
char_index(s, offset) ==
    LET extra == str_len(s) - Len(s)
        found == {i \in (offset + 1 - extra)..(offset + 1) :
                     /\ i >= 1
                     /\ i <= Len(s)
                     /\ str_len(SubSeq(s, 1, i - 1)) = offset}
    IN  IF found = {} THEN 0 ELSE CHOOSE i \in found : TRUE

\* s.get(offset..).and_then(|s| s.chars().next())
first_char_from(s, offset) ==
    LET i == char_index(s, offset)
    IN  IF i = 0 THEN <<>> ELSE <<s[i]>>

\* s[offset..] for an offset on a character boundary
str_from(s, offset) ==
    LET i == char_index(s, offset)
    IN  IF i = 0 THEN <<>> ELSE SubSeq(s, i, Len(s))

\* str::starts_with
starts_with(s, prefix) ==
    /\ Len(prefix) <= Len(s)
    /\ SubSeq(s, 1, Len(prefix)) = prefix

IsPrefix(s, t) == starts_with(t, s)

(***************************************************************************)
(* Scanner (ast/scanner.rs)                                                *)
(***************************************************************************)
Scanner(src, it, off) == [source |-> src, iter |-> it, offset |-> off]

\* Scanner::new: an empty buffer, the whole input still in the iterator
Scanner_new(it) == Scanner(<<>>, it, 0)

\* The loop `while self.offset >= self.source.len()` of Scanner::next:
\* pull one character and push it, until the offset is inside the buffer
\* or the iterator is drained.
RECURSIVE next_pull(_)
next_pull(self) ==
    IF self.offset >= str_len(self.source) /\ self.iter # <<>>
    THEN next_pull(Scanner(Append(self.source, Head(self.iter)),
                           Tail(self.iter), self.offset))
    ELSE self

\* A variant that returns the advanced offset in place of the old one.
Scanner_next_new_offset(self) ==
    LET s  == next_pull(self)
        ch == first_char_from(s.source, s.offset)
    IN  IF ch = <<>>
        THEN [some |-> FALSE, scanner |-> s]
        ELSE [some |-> TRUE,
              scanner |-> Scanner(s.source, s.iter, s.offset + len_utf8(ch[1])),
              ch |-> ch[1],
              offset |-> s.offset + len_utf8(ch[1])]

\* A variant that rebuilds the buffer from the part before the cursor.
Scanner_next_truncating(self) ==
    LET s  == next_pull(self)
        ch == first_char_from(s.source, s.offset)
        i  == char_index(s.source, s.offset)
    IN  IF ch = <<>>
        THEN [some |-> FALSE, scanner |-> s]
        ELSE [some |-> TRUE,
              scanner |-> Scanner(SubSeq(s.source, 1, i), s.iter,
                                  s.offset + len_utf8(ch[1])),
              ch |-> ch[1],
              offset |-> s.offset]

\* Scanner::next.  Option<(Scanner, char, usize)>; `scanner` also carries
\* the cells' contents when the answer is None.
Scanner_next(self) ==
    LET s  == next_pull(self)
        ch == first_char_from(s.source, s.offset)
    IN  IF ch = <<>>
        THEN [some |-> FALSE, scanner |-> s]
        ELSE [some |-> TRUE,
              scanner |-> Scanner(s.source, s.iter, s.offset + len_utf8(ch[1])),
              ch |-> ch[1],
              offset |-> s.offset]

(***************************************************************************)
(* Spans, errors and results (span.rs, ast/mod.rs)                         *)
(***************************************************************************)
None == <<>>
Some(v) == <<v>>

\* Span { range: start..end, source }; the handle to the one shared buffer
\* is left out.
Span(start, end) == [start |-> start, end |-> end]

\* SpanOf::new
SpanOf(start, end, value) == [span |-> Span(start, end), value |-> value]

MinOf(a, b) == IF a <= b THEN a ELSE b
MaxOf(a, b) == IF a >= b THEN a ELSE b

\* Span::concat that keeps the range of self
concat_self(self, other) == self

\* Span::concat
concat(self, other) ==
    Span(MinOf(self.start, other.start), MaxOf(self.end, other.end))

\* Span::add_value
add_value(self, value) == [span |-> self, value |-> value]

\* SpanOf::combine, with the value f(self.value, other.value) already computed
combine(self, other, value) ==
    [span |-> concat(self.span, other.span), value |-> value]

\* SpanOf::replace, and SpanOf::map with the mapped value already computed
replace(self, value) == [span |-> self.span, value |-> value]

\* Error kinds; a kind with a payload carries it in a second field.
Error(kind) == [kind |-> kind]
ErrorWith(kind, arg) == [kind |-> kind, arg |-> arg]

\* ParseResult<T> = Result<(Scanner, T), SpanOf<Error>>
Ok(next, result) == [ok |-> TRUE, next |-> next, result |-> result]
Err(err, scanner) ==
    [ok |-> FALSE, err |-> err, source |-> scanner.source, iter |-> scanner.iter]

\* The clone `scanner` a combinator kept, as it is after the call that
\* returned r: its own offset, the shared cells as the call left them.
reclone(scanner, r) ==
    IF r.ok THEN Scanner(r.next.source, r.next.iter, scanner.offset)
    ELSE Scanner(r.source, r.iter, scanner.offset)

(***************************************************************************)
(* Parser terms and closures                                               *)
(***************************************************************************)
Closure(file, k, env) == [file |-> file, k |-> k, env |-> env]

NewOk(result) == [p |-> "new_ok", result |-> result]
NewOkWith(f) == [p |-> "new_ok_with", f |-> f]
NewErr(error) == [p |-> "new_err", error |-> error]
NewErrRange(start, end, error) ==
    [p |-> "new_err_range", start |-> start, end |-> end, error |-> error]
NewErrCurrent(error) == [p |-> "new_err_current", error |-> error]
Map(self, f) == [p |-> "map", self |-> self, f |-> f]
MapErr(self, f) == [p |-> "map_err", self |-> self, f |-> f]
AndThen(self, f) == [p |-> "and_then", self |-> self, f |-> f]
ThenOr(self, ok, error) ==
    [p |-> "then_or", self |-> self, okf |-> ok, error |-> error]
OrElse(self, f) == [p |-> "or_else", self |-> self, f |-> f]
Optional(self) == [p |-> "optional", self |-> self]
Fold(self, parser, accumulator) ==
    [p |-> "fold", self |-> self, parser |-> parser, accumulator |-> accumulator]
FoldLoop(parser, accumulator, init) ==
    [p |-> "fold_loop", parser |-> parser, accumulator |-> accumulator,
     init |-> init]
NextChar == [p |-> "next_char"]
StringEq(string) == [p |-> "string_eq", string |-> string]
StringsEq(strings) == [p |-> "strings_eq", strings |-> strings]
\* The parser that a closure `f` builds, built when it is run: building a
\* parser only allocates closures, so that when it is built is not observable
Built(f) == [p |-> "built", f |-> f]

\* Call runs a closure that returns a parser, Apply a closure that returns
\* a value.
RECURSIVE Call(_, _), Apply(_, _)

(***************************************************************************)
(* Running a parser.  A parser that runs another one waits for its result: *)
(* the calls in progress are a stack of frames, each holding what its      *)
(* closure still needs (the continuation, the clone of the scanner it      *)
(* kept), and a run is a sequence of steps of a machine that is either     *)
(* entering a parser with a scanner or returning a result to the top frame.*)
(***************************************************************************)
Enter(parser, scanner, stack) ==
    [mode |-> "enter", parser |-> parser, scanner |-> scanner, stack |-> stack]
Leave(result, stack) == [mode |-> "leave", result |-> result, stack |-> stack]

Push(stack, frame) == Append(stack, frame)

(***************************************************************************)
(* Parser combinators (ast/mod.rs, impl Parser): for each, the call of     *)
(* the inner parser and what the closure does with its result.             *)
(***************************************************************************)
new_ok(result, scanner) == Ok(scanner, result)

new_ok_with(f, scanner) == Ok(scanner, Apply(f, scanner))

new_err(error, scanner) == Err(error, scanner)

new_err_range(start, end, error, scanner) ==
    Err(SpanOf(start, end, error), scanner)

new_err_current(error, scanner) ==
    Err(SpanOf(scanner.offset, scanner.offset, error), scanner)

map(self, f, scanner, stack) ==
    Enter(self, scanner, Push(stack, [k |-> "map", f |-> f]))

map_result(frame, r, stack) ==
    Leave(IF r.ok THEN Ok(r.next, Apply(frame.f, r.result)) ELSE r, stack)

map_err(self, f, scanner, stack) ==
    Enter(self, scanner, Push(stack, [k |-> "map_err", f |-> f]))

map_err_result(frame, r, stack) ==
    Leave(IF r.ok THEN r
          ELSE [ok |-> FALSE, err |-> Apply(frame.f, r.err),
                source |-> r.source, iter |-> r.iter],
          stack)

and_then(self, f, scanner, stack) ==
    Enter(self, scanner, Push(stack, [k |-> "and_then", f |-> f]))

\* A variant that replaces the first parser's diagnostic.
and_then_new_diagnostic(frame, r, stack) ==
    IF r.ok THEN Enter(Call(frame.f, r.result), r.next, stack)
    ELSE Leave([r EXCEPT !.err = replace(r.err, Error("Eof"))], stack)

and_then_result(frame, r, stack) ==
    IF r.ok THEN Enter(Call(frame.f, r.result), r.next, stack)
    ELSE Leave(r, stack)

then_or(self, ok, error, scanner, stack) ==
    Enter(self, scanner,
          Push(stack, [k |-> "then_or", okf |-> ok, error |-> error,
                       scanner |-> scanner]))

then_or_result(frame, r, stack) ==
    IF r.ok THEN Enter(Call(frame.okf, r.result), r.next, stack)
    ELSE Enter(Call(frame.error, r.err), reclone(frame.scanner, r), stack)

or_else(self, f, scanner, stack) ==
    Enter(self, scanner,
          Push(stack, [k |-> "or_else", f |-> f, scanner |-> scanner]))

\* A variant whose alternative resumes where the diagnostic points.
or_else_no_rewind(frame, r, stack) ==
    IF r.ok THEN Leave(r, stack)
    ELSE Enter(Call(frame.f, r.err),
               Scanner(r.source, r.iter, r.err.span.start), stack)

or_else_result(frame, r, stack) ==
    IF r.ok THEN Leave(r, stack)
    ELSE Enter(Call(frame.f, r.err), reclone(frame.scanner, r), stack)

optional(self, scanner, stack) ==
    Enter(self, scanner, Push(stack, [k |-> "optional", scanner |-> scanner]))

optional_result(frame, r, stack) ==
    Leave(IF r.ok THEN Ok(r.next, Some(r.result))
          ELSE Ok(reclone(frame.scanner, r), None),
          stack)

\* One turn of the loop of Parser::fold: `parser()` is run on a clone of
\* the scanner
fold_loop(parser, accumulator, init, scanner, stack) ==
    Enter(Call(parser, <<>>), scanner,
          Push(stack, [k |-> "fold_loop", parser |-> parser,
                       accumulator |-> accumulator, init |-> init,
                       scanner |-> scanner]))

\* A variant of the loop that keeps what the failing step consumed.
fold_loop_no_rewind(frame, r, stack) ==
    IF r.ok
    THEN fold_loop(frame.parser, frame.accumulator,
                   Apply(frame.accumulator, <<frame.init, r.result>>),
                   r.next, stack)
    ELSE Leave(Ok(Scanner(r.source, r.iter, r.err.span.start), frame.init), stack)

\* A success folds the value and moves the scanner, a failure ends the loop
\* with the scanner kept.
fold_loop_result(frame, r, stack) ==
    IF r.ok
    THEN fold_loop(frame.parser, frame.accumulator,
                   Apply(frame.accumulator, <<frame.init, r.result>>),
                   r.next, stack)
    ELSE Leave(Ok(reclone(frame.scanner, r), frame.init), stack)

\* Parser::fold: self.and_then(|init| Parser::new(loop))
fold(self, parser, accumulator, scanner, stack) ==
    and_then(self, Closure("mod", "fold", <<parser, accumulator>>), scanner, stack)

(***************************************************************************)
(* Character and string matchers (ast/mod.rs)                              *)
(***************************************************************************)
next_char_parser(scanner) ==
    LET n == Scanner_next(scanner)
    IN  IF n.some
        THEN Ok(n.scanner, SpanOf(n.offset, n.offset + len_utf8(n.ch), n.ch))
        ELSE new_err_current(Error("Eof"), n.scanner)

\* A pull that pushes the character it took from the iterator twice
string_eq_pull_twice(scanner, end_offset) ==
    IF str_len(scanner.source) < end_offset /\ scanner.iter # <<>>
    THEN Scanner(scanner.source \o <<Head(scanner.iter), Head(scanner.iter)>>,
                 Tail(scanner.iter), scanner.offset)
    ELSE scanner

\* The loop `while scanner.source.borrow().len() < end_offset`
RECURSIVE string_eq_pull(_, _)
string_eq_pull(scanner, end_offset) ==
    IF str_len(scanner.source) < end_offset /\ scanner.iter # <<>>
    THEN string_eq_pull(Scanner(Append(scanner.source, Head(scanner.iter)),
                                Tail(scanner.iter), scanner.offset),
                        end_offset)
    ELSE scanner

string_eq_parser(string, scanner) ==
    LET offset     == scanner.offset
        end_offset == scanner.offset + str_len(string)
        s          == string_eq_pull(scanner, end_offset)
    IN  IF starts_with(str_from(s.source, offset), string)
        THEN Ok(Scanner(s.source, s.iter, s.offset + str_len(string)),
                SpanOf(offset, end_offset, string))
        ELSE new_err_current(ErrorWith("ExpectedString", string), s)

\* The loop `for &str in strings` of strings_eq_parser, from the i-th on
RECURSIVE strings_eq_from(_, _, _)
strings_eq_from(strings, i, scanner) ==
    IF i > Len(strings)
    THEN new_err_current(ErrorWith("ExpectedStrings", strings), scanner)
    ELSE LET r == string_eq_parser(strings[i], scanner)
         IN  IF r.ok THEN r
             ELSE strings_eq_from(strings, i + 1, reclone(scanner, r))

strings_eq_parser(strings, scanner) == strings_eq_from(strings, 1, scanner)

StringNotEq(string) == [p |-> "string_not_eq", string |-> string]

\* string_not_eq_parser: succeeds, consuming nothing, when the input does
\* not continue with `string`
string_not_eq_parser(string, scanner) ==
    LET offset == scanner.offset
        s      == string_eq_pull(scanner, offset + str_len(string))
    IN  IF starts_with(str_from(s.source, offset), string)
        THEN Err(SpanOf(offset, offset + str_len(s.source),
                        ErrorWith("UnexpectedToken", string)), s)
        ELSE Ok(s, SpanOf(offset, offset, string))

char_eq_parser(ch) == AndThen(NextChar, Closure("mod", "char_eq", <<ch>>))

chars_eq_parser(chars) == AndThen(NextChar, Closure("mod", "chars_eq", <<chars>>))

char_match_parser(f) == AndThen(NextChar, Closure("mod", "char_match", <<f>>))

\* The closures of ast/mod.rs that return a parser
Call_mod(f, v) ==
    CASE f.k = "fold" -> FoldLoop(f.env[1], f.env[2], v)
      [] f.k = "char_eq" ->
            IF v.value = f.env[1] THEN NewOk(v)
            ELSE NewErr(replace(v, ErrorWith("ExpectedChar", f.env[1])))
      [] f.k = "chars_eq" ->
            IF v.value \in f.env[1] THEN NewOk(v)
            ELSE NewErr(replace(v, ErrorWith("ExpectedChars", f.env[1])))
      [] f.k = "char_match" ->
            IF Apply(f.env[1], v.value) THEN NewOk(v)
            ELSE NewErr(replace(v, Error("CharNotMatch")))

\* (self.0)(scanner): the boxed closure of a parser is called
call(self, scanner, stack) ==
    CASE self.p = "and_then" -> and_then(self.self, self.f, scanner, stack)
      [] self.p = "or_else" -> or_else(self.self, self.f, scanner, stack)
      [] self.p = "map" -> map(self.self, self.f, scanner, stack)
      [] self.p = "fold" ->
            fold(self.self, self.parser, self.accumulator, scanner, stack)
      [] self.p = "fold_loop" ->
            fold_loop(self.parser, self.accumulator, self.init, scanner, stack)
      [] self.p = "next_char" -> Leave(next_char_parser(scanner), stack)
      [] self.p = "string_eq" ->
            Leave(string_eq_parser(self.string, scanner), stack)
      [] self.p = "strings_eq" ->
            Leave(strings_eq_parser(self.strings, scanner), stack)
      [] self.p = "new_ok" -> Leave(new_ok(self.result, scanner), stack)
      [] self.p = "new_err" -> Leave(new_err(self.error, scanner), stack)
      [] self.p = "map_err" -> map_err(self.self, self.f, scanner, stack)
      [] self.p = "optional" -> optional(self.self, scanner, stack)
      [] self.p = "then_or" ->
            then_or(self.self, self.okf, self.error, scanner, stack)
      [] self.p = "new_err_current" ->
            Leave(new_err_current(self.error, scanner), stack)
      [] self.p = "new_err_range" ->
            Leave(new_err_range(self.start, self.end, self.error, scanner), stack)
      [] self.p = "new_ok_with" -> Leave(new_ok_with(self.f, scanner), stack)
      [] self.p = "string_not_eq" ->
            Leave(string_not_eq_parser(self.string, scanner), stack)
      [] self.p = "built" -> Enter(Call(self.f, <<>>), scanner, stack)

\* The inner parser has returned r to the closure of `frame`
resume(frame, r, stack) ==
    CASE frame.k = "and_then" -> and_then_result(frame, r, stack)
      [] frame.k = "or_else" -> or_else_result(frame, r, stack)
      [] frame.k = "map" -> map_result(frame, r, stack)
      [] frame.k = "fold_loop" -> fold_loop_result(frame, r, stack)
      [] frame.k = "map_err" -> map_err_result(frame, r, stack)
      [] frame.k = "optional" -> optional_result(frame, r, stack)
      [] frame.k = "then_or" -> then_or_result(frame, r, stack)

\* The run is over: a result with no caller left to take it
Finished(m) == m.mode = "leave" /\ m.stack = <<>>

\* One step of a run
Step(m) ==
    IF m.mode = "enter" THEN call(m.parser, m.scanner, m.stack)
    ELSE LET n == Len(m.stack)
         IN  resume(m.stack[n], m.result, SubSeq(m.stack, 1, n - 1))

\* Up to 2^k steps, stopping when the run is over
RECURSIVE Steps(_, _)
Steps(m, k) ==
    IF Finished(m) THEN m
    ELSE IF k = 0 THEN Step(m)
    ELSE Steps(Steps(m, k - 1), k - 1)

\* A run takes fewer than 2^MaxSteps steps
MaxSteps == 20

\* Parser::parse, run to its result
parse(self, scanner) == Steps(Enter(self, scanner, <<>>), MaxSteps).result

(***************************************************************************)
(* Primitives (ast/primitive.rs).  The parsers of this file that take      *)
(* `skip_newline` first skip blanks and comments, then read their token.   *)
(***************************************************************************)
\* The value ()
Unit == <<>>

\* A &'static str as a text
Str2(a, b) == <<a, b>>

LowerHex == <<"0", "1", "2", "3", "4", "5", "6", "7", "8", "9",
              "a", "b", "c", "d", "e", "f">>
UpperHex == <<"0", "1", "2", "3", "4", "5", "6", "7", "8", "9",
              "A", "B", "C", "D", "E", "F">>
Letters == {"a", "b", "c", "d", "e", "f", "g", "h", "i", "j", "k", "l", "m",
            "n", "o", "p", "q", "r", "s", "t", "u", "v", "w", "x", "y", "z",
            "A", "B", "C", "D", "E", "F", "P", "U", "X", "Z",
            CharE9, Char5B57}

\* char::is_whitespace, char::is_alphabetic, char::is_alphanumeric
is_whitespace(ch) == ch \in {" ", NL, CR, TAB}
is_alphabetic(ch) == ch \in Letters
is_alphanumeric(ch) ==
    is_alphabetic(ch) \/ \E i \in 1..10 : LowerHex[i] = ch

\* char::to_digit for a radix up to 16
to_digit(ch, radix) ==
    LET found == {i \in 1..16 : LowerHex[i] = ch \/ UpperHex[i] = ch}
    IN  IF found = {} THEN None
        ELSE LET d == (CHOOSE i \in found : TRUE) - 1
             IN  IF d < radix THEN Some(d) ELSE None

\* num_bigint::BigUint, an unbounded natural, kept as two limbs:
\* hi * Limb + lo with lo < Limb
Limb == 16777216

\* BigUint::from of a machine integer
BigUint(n) == [hi |-> n \div Limb, lo |-> n % Limb]

\* a + b
BigUint_add(a, b) ==
    LET lo == a.lo + b.lo
    IN  [hi |-> a.hi + b.hi + lo \div Limb, lo |-> lo % Limb]

\* a *= k for a u32 k up to 16
BigUint_mul(a, k) ==
    LET lo == a.lo * k
    IN  [hi |-> a.hi * k + lo \div Limb, lo |-> lo % Limb]

\* a <= b
BigUint_le(a, b) == a.hi < b.hi \/ (a.hi = b.hi /\ a.lo <= b.lo)

\* a - b where b <= a
BigUint_sub(a, b) ==
    IF a.lo >= b.lo THEN [hi |-> a.hi - b.hi, lo |-> a.lo - b.lo]
    ELSE [hi |-> a.hi - b.hi - 1, lo |-> a.lo + Limb - b.lo]

\* <<a / k, a % k>> for a u32 k up to 16
BigUint_div_rem(a, k) ==
    LET lo == (a.hi % k) * Limb + a.lo
    IN  <<[hi |-> a.hi \div k, lo |-> lo \div k], lo % k>>

\* `for _ in 0..n { a *= k }`
RECURSIVE BigUint_mul_times(_, _, _)
BigUint_mul_times(a, k, n) ==
    IF n = 0 THEN a ELSE BigUint_mul_times(BigUint_mul(a, k), k, n - 1)

\* num_bigint::BigInt: sign and magnitude, zero never negative
BigInt(neg, mag) == [neg |-> neg /\ mag # BigUint(0), mag |-> mag]

\* BigInt::from of an i32
BigInt_from_i32(n) ==
    IF n >= 0 THEN BigInt(FALSE, BigUint(n))
    ELSE BigInt(TRUE, BigUint_add(BigUint(-(n + 1)), BigUint(1)))

\* -a
BigInt_neg(a) == BigInt(~a.neg, a.mag)

\* a + b
BigInt_add(a, b) ==
    IF a.neg = b.neg THEN BigInt(a.neg, BigUint_add(a.mag, b.mag))
    ELSE IF BigUint_le(b.mag, a.mag) THEN BigInt(a.neg, BigUint_sub(a.mag, b.mag))
    ELSE BigInt(b.neg, BigUint_sub(b.mag, a.mag))

\* i32::try_from(BigInt): the value when it is in -2^31 .. 2^31 - 1
I32Max == 2147483647

i32_try_from(a) ==
    LET min == BigUint_add(BigUint(I32Max), BigUint(1))
        m   == BigUint_sub(a.mag, BigUint(1))
    IN  IF a.neg
        THEN IF BigUint_le(a.mag, min) THEN Some(-(m.hi * Limb + m.lo) - 1)
             ELSE None
        ELSE IF a.mag # min /\ BigUint_le(a.mag, min)
             THEN Some(a.mag.hi * Limb + a.mag.lo)
             ELSE None

\* u32::try_from(BigUint): the value (still as limbs) when it is below 2^32
u32_try_from(a) ==
    IF BigUint_le(a, BigUint_add(BigUint_mul(BigUint(I32Max), 2), BigUint(1)))
    THEN Some(a) ELSE None

\* NumberToken / Number { radix, integer, exponent }
NumberToken(radix, integer, exponent) ==
    [radix |-> radix, integer |-> integer, exponent |-> exponent]

digit_parser(radix) ==
    AndThen(NextChar, Closure("primitive", "digit", <<radix>>))

\* integer_parser without digit separators
integer_parser_plain(radix) ==
    Fold(Map(MapErr(digit_parser(radix),
                    Closure("primitive", "integer_err", <<>>)),
             Closure("primitive", "integer_from", <<>>)),
         Closure("primitive", "digit_parser", <<radix>>),
         Closure("primitive", "integer_acc", <<radix>>))

integer_parser(radix) ==
    Fold(Map(MapErr(digit_parser(radix),
                    Closure("primitive", "integer_err", <<>>)),
             Closure("primitive", "integer_from", <<>>)),
         Closure("primitive", "integer_step", <<radix>>),
         Closure("primitive", "integer_acc", <<radix>>))

decimal_parser(radix) ==
    AndThen(integer_parser(radix),
            Closure("primitive", "decimal_whole", <<radix>>))

exponent_parser(radix) ==
    AndThen(decimal_parser(radix),
            Closure("primitive", "exponent_decimal", <<radix>>))

\* radix_parser that knows no prefix: a leading `0` stands for radix 10
radix_parser_none ==
    Map(char_eq_parser("0"), Closure("primitive", "radix_value", <<10>>))

radix_parser ==
    AndThen(char_eq_parser("0"), Closure("primitive", "radix_zero", <<>>))

\* escape_char_parser that knows the escaped backslash only
escape_char_parser_backslash ==
    AndThen(char_eq_parser("\\"), Closure("primitive", "char_eq", <<"\\">>))

escape_char_parser ==
    MapErr(AndThen(AndThen(char_eq_parser("\\"),
                           Closure("primitive", "escape_slash", <<>>)),
                   Closure("primitive", "escape_kind", <<>>)),
           Closure("primitive", "escape_err", <<>>))

\* whitespace_parser that takes a newline for a blank in either mode
whitespace_parser_any(skip_newline) ==
    Map(char_match_parser(Closure("primitive", "is_blank", <<TRUE>>)),
        Closure("primitive", "unit", <<>>))

\* whitespace_parser; a newline is a blank only when skip_newline is set
whitespace_parser(skip_newline) ==
    Map(char_match_parser(Closure("primitive", "is_blank", <<skip_newline>>)),
        Closure("primitive", "unit", <<>>))

\* A line comment that ends behind its opening `//`
line_comment_parser_open ==
    Map(StringEq(Str2("/", "/")), Closure("primitive", "unit", <<>>))

line_comment_parser ==
    AndThen(StringEq(Str2("/", "/")),
            Closure("primitive", "line_comment", <<>>))

block_comment_parser ==
    AndThen(StringEq(Str2("/", "*")),
            Closure("primitive", "block_comment", <<>>))

\* fn one_of of skip_parser
one_of(skip_newline) ==
    OrElse(OrElse(whitespace_parser(skip_newline),
                  Closure("primitive", "line_comment_parser", <<>>)),
           Closure("primitive", "block_comment_parser", <<>>))

\* skip that takes one whitespace character or comment at most
skip_parser_once(skip_newline) ==
    OrElse(one_of(skip_newline), Closure("primitive", "skip_none", <<>>))

skip_parser(skip_newline) ==
    OrElse(Fold(one_of(skip_newline),
                Closure("primitive", "one_of", <<skip_newline>>),
                Closure("primitive", "skip_span", <<>>)),
           Closure("primitive", "skip_none", <<>>))

number_parser(skip_newline) ==
    AndThen(skip_parser(skip_newline), Closure("primitive", "number", <<>>))

string_lit_parser(skip_newline) ==
    AndThen(skip_parser(skip_newline), Closure("primitive", "string_lit", <<>>))

char_lit_parser(skip_newline) ==
    AndThen(skip_parser(skip_newline), Closure("primitive", "char_lit", <<>>))

ident_parser(skip_newline) ==
    AndThen(skip_parser(skip_newline), Closure("primitive", "ident", <<>>))

\* The scalar values that have an atom of their own
CodePoints == <<<<0, "U+0000">>, <<9, TAB>>, <<10, NL>>, <<13, CR>>,
                <<32, " ">>, <<34, "\"">>, <<39, "'">>, <<48, "0">>,
                <<49, "1">>, <<65, "A">>, <<92, "\\">>, <<97, "a">>,
                <<98, "b">>, <<233, CharE9>>, <<23383, Char5B57>>>>

\* char::from_u32: none for a surrogate or a value above U+10FFFF; every
\* scalar value without an atom of its own is the one atom "U+other"
from_u32(n) ==
    IF (BigUint_le(BigUint(55296), n) /\ BigUint_le(n, BigUint(57343)))
       \/ ~BigUint_le(n, BigUint(1114111))
    THEN None
    ELSE LET found == {i \in 1..Len(CodePoints) :
                          n.hi = 0 /\ CodePoints[i][1] = n.lo}
         IN  IF found = {} THEN Some("U+other")
             ELSE Some(CodePoints[CHOOSE i \in found : TRUE][2])

\* The plain escapes of escape_char_parser
PlainEscapes == <<<<"n", NL>>, <<"t", TAB>>, <<"r", CR>>, <<"\\", "\\">>,
                  <<"'", "'">>, <<"\"", "\"">>, <<"0", "U+0000">>>>

\* The closures of ast/primitive.rs that return a value
Apply_primitive(f, v) ==
    CASE f.k = "integer_err" -> replace(v, Error("ExpectedInt"))
      [] f.k = "integer_from" -> replace(v, BigUint(v.value))
      [] f.k = "integer_acc" ->
            combine(v[1], v[2],
                    BigUint_add(BigUint_mul(v[1].value, f.env[1]),
                                BigUint(v[2].value)))
      [] f.k = "decimal_dot_frac" -> combine(f.env[1], v, v.value)
      [] f.k = "decimal_frac" ->
            LET radix    == f.env[1]
                whole    == f.env[2]
                frac_len == v.span.end - v.span.start - 1
            IN  combine(whole, v,
                        NumberToken(radix,
                                    BigUint_add(
                                        BigUint_mul_times(whole.value, radix,
                                                          frac_len),
                                        v.value),
                                    Some(-frac_len)))
      [] f.k = "is_e" -> v \in {"e", "E"}
      [] f.k = "is_p" -> v \in {"p", "P"}
      [] f.k = "exponent_marker" -> combine(f.env[1], v, f.env[1].value)
      [] f.k = "exponent_signed" -> <<f.env[1], Some(v)>>
      [] f.k = "radix_value" -> replace(v, f.env[1])
      [] f.k = "radix_combine" -> combine(f.env[1], v, v.value)
      [] f.k = "radix_err" -> replace(v, Error("ExpectedBase"))
      [] f.k = "number_combine" -> combine(f.env[1], v, v.value)
      [] f.k = "escape_combine" -> combine(f.env[1], v, v.value)
      [] f.k = "escape_hex" ->
            combine(f.env[1], v, from_u32(BigUint(f.env[1].value * 16 + v.value))[1])
      [] f.k = "hex_combine" -> combine(f.env[1], v, v.value)
      [] f.k = "hex_close" -> combine(f.env[1], v, f.env[1].value)
      [] f.k = "escape_err" -> replace(v, Error("MissingEscape"))
      [] f.k = "string_new" -> replace(v, <<>>)
      [] f.k = "not_quote_nl" -> v # "\"" /\ v # NL
      [] f.k = "string_push" ->
            combine(v[1], v[2], Append(v[1].value, v[2].value))
      [] f.k = "string_combine" -> combine(f.env[1], v, f.env[1].value)
      [] f.k = "not_apostrophe_nl" -> v # "'" /\ v # NL
      [] f.k = "char_empty" -> combine(f.env[1], v, Error("CharLiteralEmpty"))
      [] f.k = "char_combine" -> combine(f.env[1], v, v.value)
      [] f.k = "char_incomplete" ->
            replace(f.env[1], Error("CharLiteralIncomplete"))
      [] f.k = "char_end" -> combine(f.env[1], v, f.env[1].value)
      [] f.k = "is_blank" -> is_whitespace(v) /\ (f.env[1] \/ v # NL)
      [] f.k = "not_nl" -> v # NL
      [] f.k = "unit" -> replace(v, Unit)
      [] f.k = "unit_of" -> replace(f.env[1], Unit)
      [] f.k = "unit_combine" -> combine(f.env[1], v, Unit)
      [] f.k = "unit_pair" -> combine(v[1], v[2], Unit)
      [] f.k = "skip_span" -> SpanOf(v[1].span.start, v[2].span.end, Unit)
      [] f.k = "is_ident_start" -> is_alphabetic(v) \/ v = "_"
      [] f.k = "is_ident_part" -> is_alphanumeric(v) \/ v = "_"
      [] f.k = "ident_new" -> replace(v, <<v.value>>)

\* The `match ch.value` of escape_char_parser
escape_kind(ch) ==
    LET plain == {i \in 1..Len(PlainEscapes) : PlainEscapes[i][1] = ch.value}
    IN  IF plain # {}
        THEN NewOk(replace(ch, PlainEscapes[CHOOSE i \in plain : TRUE][2]))
        ELSE IF ch.value \in {"u", "U"}
        THEN AndThen(AndThen(AndThen(char_eq_parser("{"),
                                     Closure("primitive", "hex_open", <<>>)),
                             Closure("primitive", "hex_digits", <<>>)),
                     Closure("primitive", "hex_value", <<>>))
        ELSE IF ch.value \in {"x", "X"}
        THEN AndThen(digit_parser(16),
                     Closure("primitive", "escape_first", <<>>))
        ELSE NewErr(replace(ch, Error("InvalidEscape")))

\* The closure |exponent| of exponent_parser: sign, sum, range check
exponent_value(decimal, sign, exponent) ==
    LET exp0 == IF sign # None /\ sign[1].value = "-"
                THEN BigInt_neg(BigInt(FALSE, exponent.value))
                ELSE BigInt(FALSE, exponent.value)
        exp1 == IF decimal.value.exponent # None
                THEN BigInt_add(exp0, BigInt_from_i32(decimal.value.exponent[1]))
                ELSE exp0
        exp  == i32_try_from(exp1)
    IN  IF exp = None
        THEN NewErr(SpanOf(exponent.span.start, exponent.span.end,
                           Error("ExponentOverflow")))
        ELSE NewOk(SpanOf(decimal.span.start, exponent.span.end,
                          NumberToken(decimal.value.radix,
                                      decimal.value.integer, exp)))

\* The closures of ast/primitive.rs that return a parser
Call_primitive(f, v) ==
    CASE f.k = "digit" ->
            LET d == to_digit(v.value, f.env[1])
            IN  IF d # None THEN NewOk(replace(v, d[1]))
                ELSE NewErr(replace(v, Error("CharNotDigit")))
      [] f.k = "integer_step" ->
            OrElse(digit_parser(f.env[1]),
                   Closure("primitive", "integer_sep", f.env))
      [] f.k = "integer_sep" ->
            AndThen(char_eq_parser("_"),
                    Closure("primitive", "digit_parser", f.env))
      [] f.k = "digit_parser" -> digit_parser(f.env[1])
      [] f.k = "decimal_whole" ->
            OrElse(Map(AndThen(char_eq_parser("."),
                               Closure("primitive", "decimal_dot", f.env)),
                       Closure("primitive", "decimal_frac", <<f.env[1], v>>)),
                   Closure("primitive", "decimal_none", <<f.env[1], v>>))
      [] f.k = "decimal_dot" ->
            OrElse(Map(integer_parser(f.env[1]),
                       Closure("primitive", "decimal_dot_frac", <<v>>)),
                   Closure("primitive", "decimal_dot_zero", <<v>>))
      [] f.k = "decimal_dot_zero" -> NewOk(replace(f.env[1], BigUint(0)))
      [] f.k = "decimal_none" ->
            NewOk(replace(f.env[2], NumberToken(f.env[1], f.env[2].value, None)))
      [] f.k = "exponent_decimal" ->
            OrElse(AndThen(AndThen(
                       Map(char_match_parser(
                               Closure("primitive",
                                       IF f.env[1] <= 10 THEN "is_e" ELSE "is_p",
                                       <<>>)),
                           Closure("primitive", "exponent_marker", <<v>>)),
                       Closure("primitive", "exponent_sign", <<>>)),
                       Closure("primitive", "exponent_digits", f.env)),
                   Closure("primitive", "new_ok", <<v>>))
      [] f.k = "exponent_sign" ->
            OrElse(Map(OrElse(char_eq_parser("+"),
                              Closure("primitive", "char_eq", <<"-">>)),
                       Closure("primitive", "exponent_signed", <<v>>)),
                   Closure("primitive", "new_ok", <<<<v, None>>>>))
      [] f.k = "exponent_digits" ->
            OrElse(AndThen(integer_parser(f.env[1]),
                           Closure("primitive", "exponent_value", v)),
                   Closure("primitive", "exponent_missing", <<v[1]>>))
      [] f.k = "exponent_value" -> exponent_value(f.env[1], f.env[2], v)
      [] f.k = "exponent_missing" ->
            NewErr(replace(f.env[1], Error("MissingExponent")))
      [] f.k = "new_ok" -> NewOk(f.env[1])
      [] f.k = "char_eq" -> char_eq_parser(f.env[1])
      [] f.k = "radix_zero" ->
            MapErr(Map(OrElse(OrElse(Map(char_eq_parser("b"),
                                         Closure("primitive", "radix_value", <<2>>)),
                                     Closure("primitive", "radix_o", <<>>)),
                              Closure("primitive", "radix_x", <<>>)),
                       Closure("primitive", "radix_combine", <<v>>)),
                   Closure("primitive", "radix_err", <<>>))
      [] f.k = "radix_o" ->
            Map(char_eq_parser("o"), Closure("primitive", "radix_value", <<8>>))
      [] f.k = "radix_x" ->
            Map(char_eq_parser("x"), Closure("primitive", "radix_value", <<16>>))
      [] f.k = "number" ->
            OrElse(AndThen(radix_parser,
                           Closure("primitive", "number_radix", <<>>)),
                   Closure("primitive", "exponent_parser", <<10>>))
      [] f.k = "number_radix" ->
            Map(exponent_parser(v.value),
                Closure("primitive", "number_combine", <<v>>))
      [] f.k = "exponent_parser" -> exponent_parser(f.env[1])
      [] f.k = "escape_slash" ->
            Map(NextChar, Closure("primitive", "escape_combine", <<v>>))
      [] f.k = "escape_kind" -> escape_kind(v)
      [] f.k = "hex_open" ->
            Map(integer_parser(16), Closure("primitive", "hex_combine", <<v>>))
      [] f.k = "hex_digits" ->
            Map(char_eq_parser("}"), Closure("primitive", "hex_close", <<v>>))
      [] f.k = "hex_value" ->
            LET hex_value == u32_try_from(v.value)
                character == IF hex_value = None THEN None
                             ELSE from_u32(hex_value[1])
            IN  IF hex_value = None
                THEN NewErr(replace(v, Error("UnicodeOverflow")))
                ELSE IF character = None
                THEN NewErr(replace(v, Error("InvalidUnicode")))
                ELSE NewOk(replace(v, character[1]))
      [] f.k = "escape_first" ->
            Map(digit_parser(16), Closure("primitive", "escape_hex", <<v>>))
      [] f.k = "string_lit" ->
            AndThen(Fold(Map(char_eq_parser("\""),
                             Closure("primitive", "string_new", <<>>)),
                         Closure("primitive", "string_step", <<>>),
                         Closure("primitive", "string_push", <<>>)),
                    Closure("primitive", "string_close", <<>>))
      [] f.k = "string_step" ->
            OrElse(escape_char_parser,
                   Closure("primitive", "char_match", <<"not_quote_nl">>))
      [] f.k = "char_match" ->
            char_match_parser(Closure("primitive", f.env[1], <<>>))
      [] f.k = "string_close" ->
            Map(OrElse(char_eq_parser("\""),
                       Closure("primitive", "string_incomplete", <<v>>)),
                Closure("primitive", "string_combine", <<v>>))
      [] f.k = "string_incomplete" ->
            NewErr(replace(f.env[1], Error("StringLiteralIncomplete")))
      [] f.k = "char_lit" ->
            AndThen(AndThen(char_eq_parser("'"),
                            Closure("primitive", "char_open", <<>>)),
                    Closure("primitive", "char_close", <<>>))
      [] f.k = "char_open" ->
            Map(MapErr(OrElse(escape_char_parser,
                              Closure("primitive", "char_match",
                                      <<"not_apostrophe_nl">>)),
                       Closure("primitive", "char_empty", <<v>>)),
                Closure("primitive", "char_combine", <<v>>))
      [] f.k = "char_close" ->
            Map(MapErr(char_eq_parser("'"),
                       Closure("primitive", "char_incomplete", <<v>>)),
                Closure("primitive", "char_end", <<v>>))
      [] f.k = "line_comment" ->
            Fold(OrElse(Map(char_match_parser(Closure("primitive", "not_nl", <<>>)),
                            Closure("primitive", "unit_combine", <<v>>)),
                        Closure("primitive", "new_ok", <<replace(v, Unit)>>)),
                 Closure("primitive", "char_match", <<"not_nl">>),
                 Closure("primitive", "unit_pair", <<>>))
      [] f.k = "block_comment" ->
            AndThen(Fold(OrElse(Map(StringNotEq(Str2("*", "/")),
                                    Closure("primitive", "unit_of", <<v>>)),
                                Closure("primitive", "new_ok", <<replace(v, Unit)>>)),
                         Closure("primitive", "block_comment_step", <<>>),
                         Closure("primitive", "unit_pair", <<>>)),
                    Closure("primitive", "block_comment_end", <<>>))
      [] f.k = "block_comment_step" ->
            AndThen(StringNotEq(Str2("*", "/")),
                    Closure("primitive", "next_char_parser", <<>>))
      [] f.k = "next_char_parser" -> NextChar
      [] f.k = "block_comment_end" ->
            OrElse(Map(StringEq(Str2("*", "/")),
                       Closure("primitive", "unit_combine", <<v>>)),
                   Closure("primitive", "new_ok", <<v>>))
      [] f.k = "line_comment_parser" -> line_comment_parser
      [] f.k = "block_comment_parser" -> block_comment_parser
      [] f.k = "one_of" -> one_of(f.env[1])
      [] f.k = "skip_none" -> NewOk(SpanOf(v.span.start, v.span.start, Unit))
      [] f.k = "ident" ->
            Fold(Map(char_match_parser(Closure("primitive", "is_ident_start", <<>>)),
                     Closure("primitive", "ident_new", <<>>)),
                 Closure("primitive", "char_match", <<"is_ident_part">>),
                 Closure("primitive", "string_push", <<>>))

(***************************************************************************)
(* Expressions (ast/expression.rs, primary.rs, unary.rs, binary.rs).       *)
(* An Expression is a record tagged by its variant in field `e`.           *)
(***************************************************************************)
\* Ident, CharLit, StrLit, Number, Group, Array: one payload
Expression(variant, v) == [e |-> variant, v |-> v]

PrefixUnary(operator, operand) ==
    [e |-> "PrefixUnary", operator |-> operator, operand |-> operand]

PostfixUnary(operand, operator) ==
    [e |-> "PostfixUnary", operand |-> operand, operator |-> operator]

\* PostfixOperator::{Call, Property, Index}
PostfixOperator(variant, v) == [postfix |-> variant, v |-> v]

Binary(left, right, operator) ==
    [e |-> "Binary", left |-> left, right |-> right, operator |-> operator]

\* binary::Operator; Assign carries an Option<Box<Operator>>
Operator(name) == [op |-> name]
Assign(inner) == [op |-> "Assign", of |-> inner]

\* The fixed arms of Operator::try_from_str
OperatorArms ==
    <<<<<<"+">>, "Add">>, <<<<"-">>, "Sub">>, <<<<"*">>, "Mul">>,
      <<<<"/">>, "Div">>, <<<<"%">>, "Mod">>, <<<<"&">>, "BitAnd">>,
      <<<<"|">>, "BitOr">>, <<<<"^">>, "BitXor">>,
      <<<<"<", "<">>, "LShift">>, <<<<">", ">">>, "RShift">>,
      <<<<"<">>, "LessThan">>, <<<<"<", "=">>, "LessThanEq">>,
      <<<<">">>, "MoreThan">>, <<<<">", "=">>, "MoreThanEq">>,
      <<<<"=", "=">>, "Equals">>, <<<<"!", "=">>, "NotEq">>,
      <<<<"a", "n", "d">>, "And">>, <<<<"&", "&">>, "And">>,
      <<<<"o", "r">>, "Or">>, <<<<"|", "|">>, "Or">>>>

\* Operator::try_from_str
RECURSIVE try_from_str(_)
try_from_str(op) ==
    LET arms == {i \in 1..Len(OperatorArms) : OperatorArms[i][1] = op}
    IN  IF arms # {}
        THEN Some(Operator(OperatorArms[CHOOSE i \in arms : TRUE][2]))
        ELSE IF op = <<"=">> THEN Some(Assign(None))
        ELSE IF op # <<>> /\ op[Len(op)] = "="
        THEN LET inner == try_from_str(SubSeq(op, 1, Len(op) - 1))
             IN  IF inner = None THEN None
                 ELSE IF inner[1].op \in {"Equals", "NotEq", "LessThan",
                                          "LessThanEq", "MoreThan",
                                          "MoreThanEq", "Assign"}
                 THEN None
                 ELSE Some(Assign(inner))
        ELSE None

\* PrefixOperator::try_from_str
prefix_try_from_str(op) ==
    CASE op = <<"-">> -> Some("Negate")
      [] op = <<"!">> -> Some("Not")
      [] op = <<"~">> -> Some("BitNot")
      [] OTHER -> None

symbol_parser(skip_newline, symbol) ==
    AndThen(skip_parser(skip_newline), Closure("primary", "string_eq", <<symbol>>))

symbols_parser(skip_newline, symbols) ==
    AndThen(skip_parser(skip_newline), Closure("primary", "strings_eq", <<symbols>>))

group_parser(skip_newline) ==
    AndThen(symbol_parser(skip_newline, <<"(">>),
            Closure("primary", "group_open", <<>>))

array_parser(skip_newline) ==
    AndThen(symbol_parser(skip_newline, <<"[">>),
            Closure("primary", "array_open", <<>>))

primary_parser(skip_newline) ==
    MapErr(OrElse(OrElse(OrElse(OrElse(OrElse(
               Map(number_parser(skip_newline),
                   Closure("primary", "Expression", <<"Number">>)),
               Closure("primary", "char_lit", <<skip_newline>>)),
               Closure("primary", "string_lit", <<skip_newline>>)),
               Closure("primary", "ident", <<skip_newline>>)),
               Closure("primary", "group", <<skip_newline>>)),
               Closure("primary", "array", <<skip_newline>>)),
           Closure("primary", "no_expression", <<>>))

postfix_property_parser(skip_newline) ==
    AndThen(symbol_parser(skip_newline, <<".">>),
            Closure("unary", "property_dot", <<skip_newline>>))

postfix_index_parser(skip_newline) ==
    AndThen(AndThen(symbol_parser(skip_newline, <<"[">>),
                    Closure("unary", "index_open", <<>>)),
            Closure("unary", "index_expr", <<skip_newline>>))

postfix_call_parser(skip_newline) ==
    AndThen(symbol_parser(skip_newline, <<"(">>),
            Closure("unary", "call_open", <<skip_newline>>))

\* postfix_unary_parser whose chain is made of indexes only
postfix_unary_parser_index(skip_newline) ==
    Fold(primary_parser(skip_newline),
         Closure("unary", "postfix_index_parser", <<skip_newline>>),
         Closure("unary", "PostfixUnary", <<>>))

postfix_unary_parser(skip_newline) ==
    Fold(primary_parser(skip_newline),
         Closure("unary", "postfix_step", <<skip_newline>>),
         Closure("unary", "PostfixUnary", <<>>))

prefix_unary_parser(skip_newline) ==
    OrElse(AndThen(Map(symbols_parser(skip_newline, <<<<"-">>, <<"!">>, <<"~">>>>),
                       Closure("unary", "prefix_operator", <<>>)),
                   Closure("unary", "prefix_operand", <<skip_newline>>)),
           Closure("unary", "postfix_unary_parser", <<skip_newline>>))

unary_expression_parser(skip_newline) == prefix_unary_parser(skip_newline)

operator_parser(skip_newline, strings) ==
    Map(symbols_parser(skip_newline, strings), Closure("binary", "operator", <<>>))

l_binary_parser(lower, operator) ==
    Fold(Built(lower),
         Closure("binary", "l_step", <<lower, operator>>),
         Closure("binary", "l_Binary", <<>>))

\* r_binary_parser with the operands grouped from the left
r_binary_parser_left(lower, operator) ==
    Fold(Built(lower),
         Closure("binary", "l_step", <<lower, operator>>),
         Closure("binary", "l_Binary", <<>>))

r_binary_parser(lower, operator) ==
    LET lower1 == Built(lower)
    IN  OrElse(AndThen(Built(lower),
                       Closure("binary", "r_left", <<lower, operator>>)),
               Closure("binary", "r_lower1", <<lower1>>))

\* `move || <level>_parser(skip_newline)` and
\* `move || operator_parser(skip_newline, strings)`
Level(name, skip_newline) == Closure("binary", name, <<skip_newline>>)
Operators(skip_newline, strings) ==
    Closure("binary", "operator_parser", <<skip_newline, strings>>)

AssignStrings ==
    <<<<"+", "=">>, <<"-", "=">>, <<"*", "=">>, <<"/", "=">>, <<"%", "=">>,
      <<"<", "<", "=">>, <<">", ">", "=">>, <<"&", "=">>, <<"^", "=">>,
      <<"|", "=">>, <<"&", "&", "=">>, <<"|", "|", "=">>, <<"=">>>>

product_parser(skip_newline) ==
    l_binary_parser(Level("unary_expression_parser", skip_newline),
                    Operators(skip_newline, <<<<"*">>, <<"/">>, <<"%">>>>))

\* term_parser without the level below it: + and - as tight as *, / and %
term_parser_flat(skip_newline) ==
    l_binary_parser(Level("unary_expression_parser", skip_newline),
                    Operators(skip_newline,
                              <<<<"+">>, <<"-">>, <<"*">>, <<"/">>, <<"%">>>>))

term_parser(skip_newline) ==
    l_binary_parser(Level("product_parser", skip_newline),
                    Operators(skip_newline, <<<<"+">>, <<"-">>>>))

shift_parser(skip_newline) ==
    l_binary_parser(Level("term_parser", skip_newline),
                    Operators(skip_newline, <<<<"<", "<">>, <<">", ">">>>>))

non_eq_parser(skip_newline) ==
    l_binary_parser(Level("shift_parser", skip_newline),
                    Operators(skip_newline,
                              <<<<"<", "=">>, <<">", "=">>, <<"<">>, <<">">>>>))

eq_parser(skip_newline) ==
    l_binary_parser(Level("non_eq_parser", skip_newline),
                    Operators(skip_newline, <<<<"=", "=">>, <<"!", "=">>>>))

bit_and_parser(skip_newline) ==
    l_binary_parser(Level("eq_parser", skip_newline),
                    Operators(skip_newline, <<<<"&">>>>))

bit_xor_parser(skip_newline) ==
    l_binary_parser(Level("bit_and_parser", skip_newline),
                    Operators(skip_newline, <<<<"^">>>>))

bit_or_parser(skip_newline) ==
    l_binary_parser(Level("bit_xor_parser", skip_newline),
                    Operators(skip_newline, <<<<"|">>>>))

logic_and_parser(skip_newline) ==
    l_binary_parser(Level("bit_or_parser", skip_newline),
                    Operators(skip_newline, <<<<"a", "n", "d">>, <<"&", "&">>>>))

logic_or_parser(skip_newline) ==
    l_binary_parser(Level("logic_and_parser", skip_newline),
                    Operators(skip_newline, <<<<"o", "r">>, <<"|", "|">>>>))

assign_parser(skip_newline) ==
    r_binary_parser(Level("logic_or_parser", skip_newline),
                    Operators(skip_newline, AssignStrings))

binary_expression_parser(skip_newline) == assign_parser(skip_newline)

expression_parser(skip_newline) == binary_expression_parser(skip_newline)
inline_expression_parser == expression_parser(FALSE)
multiline_expression_parser == expression_parser(TRUE)

args_parser(skip_newline) ==
    Fold(Map(expression_parser(skip_newline), Closure("primary", "vec1", <<>>)),
         Closure("primary", "args_step", <<skip_newline>>),
         Closure("primary", "args_push", <<>>))

\* The closures of ast/primary.rs
Apply_primary(f, v) ==
    CASE f.k = "Expression" -> Expression(f.env[1], v)
      [] f.k = "no_expression" -> replace(v, Error("NoExpression"))
      [] f.k = "group_close" ->
            Expression("Group", combine(f.env[1], v, f.env[2]))
      [] f.k = "array_close" ->
            Expression("Array", combine(f.env[1], v, f.env[2]))
      [] f.k = "vec1" -> <<v>>
      [] f.k = "args_push" -> Append(v[1], v[2])

Call_primary(f, v) ==
    CASE f.k = "string_eq" -> StringEq(f.env[1])
      [] f.k = "strings_eq" -> StringsEq(f.env[1])
      [] f.k = "char_lit" ->
            Map(char_lit_parser(f.env[1]),
                Closure("primary", "Expression", <<"CharLit">>))
      [] f.k = "string_lit" ->
            Map(string_lit_parser(f.env[1]),
                Closure("primary", "Expression", <<"StrLit">>))
      [] f.k = "ident" ->
            Map(ident_parser(f.env[1]),
                Closure("primary", "Expression", <<"Ident">>))
      [] f.k = "group" -> group_parser(f.env[1])
      [] f.k = "array" -> array_parser(f.env[1])
      [] f.k = "group_open" ->
            AndThen(multiline_expression_parser,
                    Closure("primary", "group_expr", <<v>>))
      [] f.k = "group_expr" ->
            Map(symbol_parser(TRUE, <<")">>),
                Closure("primary", "group_close", <<f.env[1], v>>))
      [] f.k = "array_open" ->
            AndThen(args_parser(TRUE),
                    Closure("primary", "array_elements", <<v>>))
      [] f.k = "array_elements" ->
            Map(symbol_parser(TRUE, <<"]">>),
                Closure("primary", "array_close", <<f.env[1], v>>))
      [] f.k = "args_step" ->
            AndThen(symbol_parser(f.env[1], <<",">>),
                    Closure("primary", "expression_parser", f.env))
      [] f.k = "expression_parser" -> expression_parser(f.env[1])

\* The closures of ast/unary.rs
Apply_unary(f, v) ==
    CASE f.k = "prefix_operator" -> replace(v, prefix_try_from_str(v.value)[1])
      [] f.k = "PrefixUnary" -> PrefixUnary(f.env[1], v)
      [] f.k = "PostfixUnary" -> PostfixUnary(v[1], v[2])
      [] f.k = "Property" ->
            [span |-> concat(f.env[1].span, v.span),
             value |-> PostfixOperator("Property", v)]
      [] f.k = "pair" -> <<f.env[1], v>>
      [] f.k = "Index" ->
            combine(f.env[1], v, PostfixOperator("Index", f.env[2]))
      [] f.k = "Call" ->
            combine(f.env[1], v, PostfixOperator("Call", f.env[2]))

Call_unary(f, v) ==
    CASE f.k = "prefix_operand" ->
            Map(prefix_unary_parser(f.env[1]),
                Closure("unary", "PrefixUnary", <<v>>))
      [] f.k = "postfix_unary_parser" -> postfix_unary_parser(f.env[1])
      [] f.k = "postfix_step" ->
            OrElse(OrElse(postfix_property_parser(f.env[1]),
                          Closure("unary", "postfix_call_parser", f.env)),
                   Closure("unary", "postfix_index_parser", f.env))
      [] f.k = "postfix_call_parser" -> postfix_call_parser(f.env[1])
      [] f.k = "postfix_index_parser" -> postfix_index_parser(f.env[1])
      [] f.k = "property_dot" ->
            Map(ident_parser(f.env[1]), Closure("unary", "Property", <<v>>))
      [] f.k = "index_open" ->
            Map(inline_expression_parser, Closure("unary", "pair", <<v>>))
      [] f.k = "index_expr" ->
            Map(symbol_parser(f.env[1], <<"]">>),
                Closure("unary", "Index", v))
      [] f.k = "call_open" ->
            AndThen(OrElse(args_parser(f.env[1]),
                           Closure("unary", "no_args", <<>>)),
                    Closure("unary", "call_args", <<f.env[1], v>>))
      [] f.k = "no_args" -> NewOk(<<>>)
      [] f.k = "call_args" ->
            Map(symbol_parser(f.env[1], <<")">>),
                Closure("unary", "Call", <<f.env[2], v>>))

\* The closures of ast/binary.rs
Apply_binary(f, v) ==
    CASE f.k = "operator" -> replace(v, try_from_str(v.value)[1])
      [] f.k = "pair" -> <<f.env[1], v>>
      [] f.k = "l_Binary" -> Binary(v[1], v[2][2], v[2][1])
      [] f.k = "r_Binary" -> Binary(f.env[1], v, f.env[2])

Call_binary(f, v) ==
    CASE f.k = "l_step" ->
            LET lower == Built(f.env[1])
            IN  AndThen(Call(f.env[2], <<>>),
                        Closure("binary", "l_right", <<lower>>))
      [] f.k = "l_right" ->
            Map(f.env[1], Closure("binary", "pair", <<v>>))
      [] f.k = "r_left" ->
            AndThen(Call(f.env[2], <<>>),
                    Closure("binary", "r_op", <<f.env[1], f.env[2], v>>))
      [] f.k = "r_op" ->
            Map(r_binary_parser(f.env[1], f.env[2]),
                Closure("binary", "r_Binary", <<f.env[3], v>>))
      [] f.k = "r_lower1" -> f.env[1]
      [] f.k = "operator_parser" -> operator_parser(f.env[1], f.env[2])
      [] f.k = "unary_expression_parser" -> unary_expression_parser(f.env[1])
      [] f.k = "product_parser" -> product_parser(f.env[1])
      [] f.k = "term_parser" -> term_parser(f.env[1])
      [] f.k = "shift_parser" -> shift_parser(f.env[1])
      [] f.k = "non_eq_parser" -> non_eq_parser(f.env[1])
      [] f.k = "eq_parser" -> eq_parser(f.env[1])
      [] f.k = "bit_and_parser" -> bit_and_parser(f.env[1])
      [] f.k = "bit_xor_parser" -> bit_xor_parser(f.env[1])
      [] f.k = "bit_or_parser" -> bit_or_parser(f.env[1])
      [] f.k = "logic_and_parser" -> logic_and_parser(f.env[1])
      [] f.k = "logic_or_parser" -> logic_or_parser(f.env[1])

(***************************************************************************)
(* Statements (ast/statement.rs).  A Statement is a record tagged by its   *)
(* variant in field `s`.                                                   *)
(***************************************************************************)
\* Statement::{Expression, If, While, Block}
Statement(variant, v) == [s |-> variant, v |-> v]

\* struct Statements(pub Vec<Statement>)
Statements(stmts) == [stmts |-> stmts]

IfStmt(condition, then_block, else_block) ==
    [condition |-> condition, then_block |-> then_block,
     else_block |-> else_block]

\* ElseBlock that records every alternative as Else
ElseBlock_else(variant, v) == [else |-> "Else", v |-> v]

\* ElseBlock::{Elif, Else}
ElseBlock(variant, v) == [else |-> variant, v |-> v]

WhileStmt(condition, while_block, break_block, continue_block) ==
    [condition |-> condition, while_block |-> while_block,
     break_block |-> break_block, continue_block |-> continue_block]

KwIf == <<"i", "f">>
KwDo == <<"d", "o">>
KwWhile == <<"w", "h", "i", "l", "e">>
KwEnd == <<"e", "n", "d">>
KwElse == <<"e", "l", "s", "e">>
KwElif == <<"e", "l", "i", "f">>
KwOnbreak == <<"o", "n", "b", "r", "e", "a", "k">>
KwOncontinue == <<"o", "n", "c", "o", "n", "t", "i", "n", "u", "e">>

\* const TERMINATORS
TERMINATORS == <<KwEnd, KwElse, KwElif, KwOnbreak, KwOncontinue>>

keyword_parser(keyword) ==
    AndThen(ident_parser(TRUE), Closure("statement", "keyword", <<keyword>>))

keywords_parser(keywords) ==
    AndThen(ident_parser(TRUE), Closure("statement", "keywords", <<keywords>>))

\* seperator_parser that takes `;` alone for a separator
seperator_parser_semicolon ==
    AndThen(skip_parser(FALSE), Closure("primary", "string_eq", <<<<";">>>>))

\* seperator_parser that asks for no separator behind the blanks
seperator_parser_blank == skip_parser(FALSE)

seperator_parser ==
    AndThen(skip_parser(FALSE), Closure("statement", "seperators", <<>>))

\* stmt_parser without the look-ahead for a terminator
stmt_parser_any ==
    AndThen(skip_parser(TRUE), Closure("statement", "statement_parser", <<>>))

stmt_parser ==
    AndThen(skip_parser(TRUE), Closure("statement", "stmt", <<>>))

statements_parser ==
    Map(AndThen(Fold(Map(skip_parser(TRUE),
                         Closure("statement", "empty_vec", <<>>)),
                     Closure("statement", "stmts_step", <<>>),
                     Closure("statement", "push_some", <<>>)),
                Closure("statement", "last_stmt", <<>>)),
        Closure("statement", "Statements", <<>>))

do_block_parser ==
    AndThen(AndThen(keyword_parser(KwDo),
                    Closure("statement", "statements_parser", <<>>)),
            Closure("statement", "block_end", <<>>))

_if_stmt_parser ==
    AndThen(Map(AndThen(AndThen(multiline_expression_parser,
                                Closure("statement", "then_do", <<>>)),
                        Closure("statement", "then_stmts", <<>>)),
                Closure("statement", "rc_pair", <<>>)),
            Closure("statement", "if_tail", <<>>))

if_stmt_parser ==
    AndThen(keyword_parser(KwIf), Closure("statement", "_if_stmt_parser", <<>>))

onbreak_parser ==
    AndThen(keyword_parser(KwOnbreak),
            Closure("statement", "statements_parser", <<>>))

oncontinue_parser ==
    AndThen(keyword_parser(KwOncontinue),
            Closure("statement", "statements_parser", <<>>))

\* while_stmt_parser that looks for onbreak before oncontinue only
while_stmt_parser_one_order ==
    AndThen(AndThen(AndThen(AndThen(AndThen(
        AndThen(keyword_parser(KwWhile),
                Closure("statement", "multiline_expression_parser", <<>>)),
        Closure("statement", "then_do", <<>>)),
        Closure("statement", "then_stmts", <<>>)),
        Closure("statement", "while_break", <<>>)),
        Closure("statement", "while_continue", <<>>)),
        Closure("statement", "while_end", <<>>))

while_stmt_parser ==
    AndThen(AndThen(AndThen(AndThen(AndThen(AndThen(
        AndThen(keyword_parser(KwWhile),
                Closure("statement", "multiline_expression_parser", <<>>)),
        Closure("statement", "then_do", <<>>)),
        Closure("statement", "then_stmts", <<>>)),
        Closure("statement", "while_break", <<>>)),
        Closure("statement", "while_continue", <<>>)),
        Closure("statement", "while_break_again", <<>>)),
        Closure("statement", "while_end", <<>>))

statement_parser ==
    AndThen(skip_parser(TRUE), Closure("statement", "statement", <<>>))

\* The closures of ast/statement.rs
Apply_statement(f, v) ==
    CASE f.k = "Statement" -> Statement(f.env[1], v)
      [] f.k = "Statements" -> Statements(v)
      [] f.k = "empty_vec" -> <<>>
      [] f.k = "keep" -> f.env[1]
      [] f.k = "pair" -> <<f.env[1], v>>
      [] f.k = "rc_pair" -> v
      [] f.k = "triple" -> <<f.env[1], f.env[2], v>>
      [] f.k = "push_some" ->
            IF v[2] = None THEN v[1] ELSE Append(v[1], v[2][1])
      [] f.k = "push" -> Append(f.env[1], v)
      [] f.k = "IfStmt_none" -> IfStmt(f.env[1], f.env[2], None)
      [] f.k = "IfStmt_else" ->
            IfStmt(f.env[1], f.env[2], Some(ElseBlock("Else", f.env[3])))
      [] f.k = "IfStmt_elif" ->
            IfStmt(f.env[1], f.env[2], Some(ElseBlock("Elif", v)))
      [] f.k = "WhileStmt" -> WhileStmt(f.env[1], f.env[2], f.env[3], v)
      [] f.k = "with_break" -> [f.env[1] EXCEPT !.break_block = v]

Call_statement(f, v) ==
    CASE f.k = "keyword" ->
            IF v.value = f.env[1] THEN NewOk(replace(v, f.env[1]))
            ELSE NewErr(replace(v, ErrorWith("InvalidKeyword", v.value)))
      [] f.k = "keywords" ->
            LET found == {i \in 1..Len(f.env[1]) : f.env[1][i] = v.value}
            IN  IF found # {}
                THEN NewOk(replace(v, f.env[1][CHOOSE i \in found :
                                                 \A j \in found : i <= j]))
                ELSE NewErr(replace(v, ErrorWith("InvalidKeyword", v.value)))
      [] f.k = "seperators" -> StringsEq(<<<<";">>, <<NL>>, <<CR, NL>>>>)
      [] f.k = "stmt" ->
            ThenOr(keywords_parser(TERMINATORS),
                   Closure("statement", "terminator", <<>>),
                   Closure("statement", "statement_parser", <<>>))
      [] f.k = "terminator" -> NewErrCurrent(Error("Eof"))
      [] f.k = "statement_parser" -> statement_parser
      [] f.k = "statements_parser" -> statements_parser
      [] f.k = "multiline_expression_parser" -> multiline_expression_parser
      [] f.k = "_if_stmt_parser" -> _if_stmt_parser
      [] f.k = "stmts_step" ->
            AndThen(Optional(stmt_parser),
                    Closure("statement", "then_seperator", <<>>))
      [] f.k = "then_seperator" ->
            Map(seperator_parser, Closure("statement", "keep", <<v>>))
      [] f.k = "last_stmt" ->
            OrElse(Map(stmt_parser, Closure("statement", "push", <<v>>)),
                   Closure("statement", "ok_stmts", <<v>>))
      [] f.k = "ok_stmts" -> NewOk(f.env[1])
      [] f.k = "block_end" ->
            Map(keyword_parser(KwEnd), Closure("statement", "keep", <<v>>))
      [] f.k = "then_do" ->
            Map(keyword_parser(KwDo), Closure("statement", "keep", <<v>>))
      [] f.k = "then_stmts" ->
            Map(statements_parser, Closure("statement", "pair", <<v>>))
      [] f.k = "if_tail" ->
            OrElse(OrElse(Map(keyword_parser(KwEnd),
                              Closure("statement", "IfStmt_none", v)),
                          Closure("statement", "if_else", v)),
                   Closure("statement", "if_elif", v))
      [] f.k = "if_else" ->
            AndThen(AndThen(keyword_parser(KwElse),
                            Closure("statement", "statements_parser", <<>>)),
                    Closure("statement", "else_end", f.env))
      [] f.k = "else_end" ->
            Map(keyword_parser(KwEnd),
                Closure("statement", "IfStmt_else", Append(f.env, v)))
      [] f.k = "if_elif" ->
            AndThen(keyword_parser(KwElif),
                    Closure("statement", "elif_if", f.env))
      [] f.k = "elif_if" ->
            Map(_if_stmt_parser, Closure("statement", "IfStmt_elif", f.env))
      [] f.k = "while_break" ->
            Map(Optional(onbreak_parser),
                Closure("statement", "triple", v))
      [] f.k = "while_continue" ->
            Map(Optional(oncontinue_parser),
                Closure("statement", "WhileStmt", v))
      [] f.k = "while_break_again" ->
            IF v.break_block = None
            THEN Map(Optional(onbreak_parser),
                     Closure("statement", "with_break", <<v>>))
            ELSE NewOk(v)
      [] f.k = "while_end" ->
            Map(keyword_parser(KwEnd), Closure("statement", "keep", <<v>>))
      [] f.k = "statement" ->
            OrElse(OrElse(OrElse(
                Map(if_stmt_parser, Closure("statement", "Statement", <<"If">>)),
                Closure("statement", "while", <<>>)),
                Closure("statement", "do_block", <<>>)),
                Closure("statement", "inline_expression", <<>>))
      [] f.k = "while" ->
            Map(while_stmt_parser, Closure("statement", "Statement", <<"While">>))
      [] f.k = "do_block" ->
            Map(do_block_parser, Closure("statement", "Statement", <<"Block">>))
      [] f.k = "inline_expression" ->
            Map(inline_expression_parser,
                Closure("statement", "Statement", <<"Expression">>))

(***************************************************************************)
(* Display (impl fmt::Display for Expression, Number, Binary, Operator,    *)
(* PrefixUnary, PostfixUnary): the text form the repository's tests use.   *)
(***************************************************************************)
\* BigUint::to_str_radix, and i32's Display
RECURSIVE to_str_radix(_, _)
to_str_radix(n, radix) ==
    IF n.hi = 0 /\ n.lo < radix THEN <<LowerHex[n.lo + 1]>>
    ELSE LET qr == BigUint_div_rem(n, radix)
         IN  Append(to_str_radix(qr[1], radix), LowerHex[qr[2] + 1])

i32_to_string(n) ==
    IF n < 0 THEN <<"-">> \o to_str_radix(BigInt_from_i32(n).mag, 10)
    ELSE to_str_radix(BigUint(n), 10)

\* impl Display for Number
Number_to_string(number) ==
    LET radix_prefix == CASE number.radix = 2 -> <<"0", "b">>
                          [] number.radix = 8 -> <<"0", "o">>
                          [] number.radix = 16 -> <<"0", "x">>
                          [] OTHER -> <<>>
        digits == to_str_radix(number.integer, number.radix)
    IN  IF number.exponent # None
        THEN radix_prefix \o digits \o <<"e">> \o i32_to_string(number.exponent[1])
        ELSE radix_prefix \o digits

\* char::escape_debug as {:?} applies it inside `quote`
escape_debug(ch, quote) ==
    CASE ch = NL -> <<"\\", "n">>
      [] ch = TAB -> <<"\\", "t">>
      [] ch = CR -> <<"\\", "r">>
      [] ch = "U+0000" -> <<"\\", "0">>
      [] ch = "\\" -> <<"\\", "\\">>
      [] ch = quote -> <<"\\", quote>>
      [] OTHER -> <<ch>>

RECURSIVE str_debug(_)
str_debug(s) ==
    IF s = <<>> THEN <<>> ELSE escape_debug(Head(s), "\"") \o str_debug(Tail(s))

\* impl Display for binary::Operator
RECURSIVE Operator_to_string(_)
Operator_to_string(operator) ==
    IF operator.op = "Assign"
    THEN IF operator.of = None THEN <<"=">>
         ELSE Operator_to_string(operator.of[1]) \o <<"=">>
    ELSE IF operator.op = "And" THEN <<"a", "n", "d">>
    ELSE IF operator.op = "Or" THEN <<"o", "r">>
    ELSE LET i == CHOOSE i \in 1..Len(OperatorArms) :
                      OperatorArms[i][2] = operator.op
         IN  OperatorArms[i][1]

\* impl Display for PrefixOperator
PrefixOperator_to_string(operator) ==
    CASE operator = "Negate" -> <<"-">>
      [] operator = "Not" -> <<"!">>
      [] operator = "BitNot" -> <<"~">>

\* impl Display for Expression (and for the nodes it delegates to)
RECURSIVE to_string(_), join_to_string(_, _)
to_string(expr) ==
    CASE expr.e = "Ident" -> expr.v.value
      [] expr.e = "CharLit" -> <<"'">> \o escape_debug(expr.v.value, "'") \o <<"'">>
      [] expr.e = "StrLit" -> <<"\"">> \o str_debug(expr.v.value) \o <<"\"">>
      [] expr.e = "Number" -> Number_to_string(expr.v.value)
      [] expr.e = "Group" -> to_string(expr.v.value)
      [] expr.e = "Array" -> <<"[">> \o join_to_string(expr.v.value, 1) \o <<"]">>
      [] expr.e = "PrefixUnary" ->
            PrefixOperator_to_string(expr.operator.value)
                \o <<"(">> \o to_string(expr.operand) \o <<")">>
      [] expr.e = "PostfixUnary" ->
            <<"(">> \o to_string(expr.operand) \o <<")">>
                \o (LET operator == expr.operator.value
                    IN  CASE operator.postfix = "Call" ->
                                <<"(">> \o join_to_string(operator.v, 1) \o <<")">>
                          [] operator.postfix = "Property" ->
                                <<".">> \o operator.v.value
                          [] operator.postfix = "Index" ->
                                <<"[">> \o to_string(operator.v) \o <<"]">>)
      [] expr.e = "Binary" ->
            <<"(">> \o to_string(expr.left) \o <<")">>
                \o Operator_to_string(expr.operator.value)
                \o <<"(">> \o to_string(expr.right) \o <<")">>

\* exprs.iter().map(to_string).collect::<Vec<_>>().join(","), from the i-th
join_to_string(exprs, i) ==
    IF i > Len(exprs) THEN <<>>
    ELSE IF i = Len(exprs) THEN to_string(exprs[i])
    ELSE to_string(exprs[i]) \o <<",">> \o join_to_string(exprs, i + 1)

(***************************************************************************)
(* Closures supplied by a caller of the combinators: probes that report    *)
(* the scanner they are run on, and fixed answers.                         *)
(***************************************************************************)
\* |scanner| scanner.offset, for Parser::new_ok_with
Apply_caller(f, v) ==
    CASE f.k = "offset" -> v.offset
      [] f.k = "push" -> Append(v[1], v[2])
      [] f.k = "empty" -> <<>>
      [] f.k = "tag" -> <<f.env[1], v>>

Call_caller(f, v) ==
    CASE f.k = "probe_ok" -> NewOkWith(Closure("caller", "offset", <<>>))
      [] f.k = "probe_err" -> NewErrCurrent(Error(f.env[1]))
      [] f.k = "then" -> Map(f.env[1], Closure("caller", "tag", <<v>>))
      [] f.k = "thunk" -> f.env[1]

(***************************************************************************)
(* Closure dispatch                                                        *)
(***************************************************************************)
Call(f, v) ==
    CASE f.file = "mod" -> Call_mod(f, v)
      [] f.file = "primitive" -> Call_primitive(f, v)
      [] f.file = "primary" -> Call_primary(f, v)
      [] f.file = "unary" -> Call_unary(f, v)
      [] f.file = "binary" -> Call_binary(f, v)
      [] f.file = "statement" -> Call_statement(f, v)
      [] f.file = "caller" -> Call_caller(f, v)

Apply(f, v) ==
    CASE f.file = "primitive" -> Apply_primitive(f, v)
      [] f.file = "primary" -> Apply_primary(f, v)
      [] f.file = "unary" -> Apply_unary(f, v)
      [] f.file = "binary" -> Apply_binary(f, v)
      [] f.file = "statement" -> Apply_statement(f, v)
      [] f.file = "caller" -> Apply_caller(f, v)

(***************************************************************************)
(* The scanner as a state machine: one pair of shared cells (source,       *)
(* iter) and NumCursors clones of the root scanner, each with its offset.  *)
(***************************************************************************)
MaxScanLen == 2
NumCursors == 2

ScanAlphabet == {"a", Char5B57}

RECURSIVE SeqsUpTo(_, _)
SeqsUpTo(S, n) ==
    IF n = 0 THEN {<<>>}
    ELSE LET shorter == SeqsUpTo(S, n - 1)
         IN  shorter \cup {Append(s, c) : s \in {t \in shorter : Len(t) = n - 1},
                                          c \in S}

ScanInputs == SeqsUpTo(ScanAlphabet, MaxScanLen)

\* The strings handed to string_eq_parser
ScanStrings == {<<"a">>, <<"a", Char5B57>>, <<Char5B57>>}

\* The clone held in slot i
Cursor(i) == Scanner(source, iter, cursors[i])

ScannerInit ==
    /\ source = <<>>
    /\ iter \in ScanInputs
    /\ cursors = [i \in 1..NumCursors |-> 0]
    /\ last = [op |-> "new", to |-> 1]
    /\ test = [family |-> "scanner"]

\* #[derive(Clone)]: slot j takes a clone of the scanner in slot i
DoClone(i, j) ==
    /\ i # j
    /\ cursors[j] # cursors[i]
    /\ cursors' = [cursors EXCEPT ![j] = cursors[i]]
    /\ last' = [op |-> "clone", to |-> j]
    /\ UNCHANGED <<source, iter, test>>

\* Scanner::next on the scanner in slot i, which keeps the advanced scanner
DoNext(i) ==
    LET n == Scanner_next(Cursor(i))
    IN  /\ source' = n.scanner.source
        /\ iter' = n.scanner.iter
        /\ cursors' = IF n.some THEN [cursors EXCEPT ![i] = n.scanner.offset]
                      ELSE cursors
        /\ last' = [op |-> "next", to |-> i, at |-> cursors[i],
                    source0 |-> source, iter0 |-> iter,
                    some |-> n.some,
                    ch |-> IF n.some THEN <<n.ch>> ELSE <<>>,
                    offset |-> IF n.some THEN <<n.offset>> ELSE <<>>,
                    cursor |-> IF n.some THEN <<n.scanner.offset>> ELSE <<>>]
        /\ UNCHANGED test

\* string_eq_parser(string) on the scanner in slot i, which keeps the
\* returned scanner on success
DoStringEq(i, string) ==
    LET r == string_eq_parser(string, Cursor(i))
        after == reclone(Cursor(i), r)
    IN  /\ source' = after.source
        /\ iter' = after.iter
        /\ cursors' = IF r.ok THEN [cursors EXCEPT ![i] = r.next.offset]
                      ELSE cursors
        /\ last' = [op |-> "string_eq", to |-> i, at |-> cursors[i],
                    source0 |-> source, iter0 |-> iter,
                    string |-> string, ok |-> r.ok]
        /\ UNCHANGED test

ScannerNext ==
    \/ \E i, j \in 1..NumCursors : DoClone(i, j)
    \/ \E i \in 1..NumCursors : DoNext(i)
    \/ \E i \in 1..NumCursors, string \in ScanStrings : DoStringEq(i, string)

ScannerSpec == ScannerInit /\ [][ScannerNext]_vars

(***************************************************************************)
(* C1.  Scanner.next at offset o returns none only when o is the buffer    *)
(* length and the iterator is drained; otherwise it returns (c, o,         *)
(* cursor') with c the character that starts at byte o, the returned       *)
(* offset the old offset o and cursor'.offset = o + len_utf8(c).  It pulls *)
(* from the iterator only when o is at the end of the buffer, and then     *)
(* exactly one character, appended to the buffer.                          *)
(***************************************************************************)
\* The whole input: what the buffer holds followed by what is still to come
WholeInput(src, it) == src \o it

C1_NextContract ==
    last.op = "next" =>
        LET o     == last.at
            whole == WholeInput(last.source0, last.iter0)
            atEnd == o = str_len(last.source0)
        IN  /\ ~last.some => (atEnd /\ last.iter0 = <<>>)
            /\ (atEnd /\ last.iter0 = <<>>) => ~last.some
            /\ last.some =>
                  /\ last.ch = first_char_from(whole, o)
                  /\ last.offset = <<o>>
                  /\ last.cursor = <<o + len_utf8(last.ch[1])>>
            /\ IF atEnd /\ last.iter0 # <<>>
               THEN /\ source = Append(last.source0, Head(last.iter0))
                    /\ iter = Tail(last.iter0)
               ELSE /\ source = last.source0
                    /\ iter = last.iter0

\* next has returned a multi-byte character it had to pull first, from a
\* cursor that is not at offset 0
C1_Witness ==
    /\ last.op = "next"
    /\ last.some
    /\ last.at > 0
    /\ len_utf8(last.ch[1]) > 1
    /\ Len(source) = Len(last.source0) + 1

(***************************************************************************)
(* C2.  An operation (next, string match) on one clone never changes the   *)
(* offset of another clone, and all the others can observe is that the     *)
(* shared buffer grew at its end: its old content stays as it was, and     *)
(* what was appended is what left the iterator.                            *)
(***************************************************************************)
C2_CursorFrame ==
    [][ /\ \A k \in 1..NumCursors : k # last'.to => cursors'[k] = cursors[k]
        /\ IsPrefix(source, source')
        /\ WholeInput(source', iter') = WholeInput(source, iter) ]_vars

\* An operation on one clone has grown the buffer while the other clone
\* stands at an earlier, non-zero offset
C2_Witness ==
    /\ last.op \in {"next", "string_eq"}
    /\ Len(source) > Len(last.source0)
    /\ \E k \in 1..NumCursors :
          k # last.to /\ cursors[k] > 0 /\ cursors[k] < cursors[last.to]

(***************************************************************************)
(* The combinators as a caller uses them: a scanner that Advance moves     *)
(* over the input, and composite parsers run on a clone of it.             *)
(***************************************************************************)
MaxCombLen == 3

\* Every text over {a, b} up to MaxCombLen characters, and two longer ones
CombTexts == {<<"b", "a", "b", "a", "b", "a", "a">>,
              <<"a", "b", "a", "b", "b", "a">>}
CombInputs == SeqsUpTo({"a", "b"}, MaxCombLen) \cup CombTexts

\* |_| parser
Thunk(parser) == Closure("caller", "thunk", <<parser>>)
\* |v| parser.map(|w| (v, w))
Then(parser) == Closure("caller", "then", <<parser>>)
\* |_| Parser::new_ok_with(|scanner| scanner.offset)
ProbeOk == Closure("caller", "probe_ok", <<>>)
\* |_| Parser::new_err_current(Error::Eof)
ProbeErr == Closure("caller", "probe_err", <<"Eof">>)
OffsetProbe == NewOkWith(Closure("caller", "offset", <<>>))

\* "ab" by look-ahead; 'a' then 'b'; 'a' then 'b' then 'a'; any character
MatchAB == StringEq(<<"a", "b">>)
CharsAB == AndThen(char_eq_parser("a"), Thunk(char_eq_parser("b")))
CharsABA == AndThen(CharsAB, Thunk(char_eq_parser("a")))
FirstParsers == {MatchAB, CharsABA, NextChar}
StepParsers == {MatchAB, CharsAB}
InitParsers == {NewOk(<<>>), Map(char_eq_parser("b"), Closure("caller", "empty", <<>>))}

CombInit ==
    /\ source = <<>>
    /\ iter \in CombInputs
    /\ cursors = [i \in 1..NumCursors |-> 0]
    /\ last = [op |-> "new", to |-> 1]
    /\ test = [family |-> "combinators"]

\* Run `parser` on a clone of the scanner in slot 1 and record the outcome;
\* the caller runs one parser where it stands, then moves on.
RunParser(op, parser, first, f) ==
    /\ last.op \in {"new", "next"}
    /\ last' = [op |-> op, to |-> 1, at |-> cursors[1],
                source0 |-> source, iter0 |-> iter,
                first |-> first, f |-> f,
                result |-> parse(parser, Cursor(1))]
    /\ LET after == reclone(Cursor(1), last'.result)
       IN  /\ source' = after.source
           /\ iter' = after.iter
    /\ UNCHANGED <<cursors, test>>

Advance == DoNext(1) /\ last'.some

RunOrElse(first, f) == RunParser("or_else", OrElse(first, f), first, f)
RunThenOr(first, f) ==
    RunParser("then_or", ThenOr(first, Then(OffsetProbe), f), first, f)
RunOptional(first) == RunParser("optional", Optional(first), first, ProbeOk)
RunAndThen(first, f) == RunParser("and_then", AndThen(first, f), first, f)
RunFold(init, step) ==
    RunParser("fold", Fold(init, Thunk(step), Closure("caller", "push", <<>>)),
              init, step)

CombNext ==
    \/ Advance
    \/ \E first \in FirstParsers, f \in {ProbeOk, ProbeErr} : RunOrElse(first, f)
    \/ \E first \in FirstParsers : RunThenOr(first, ProbeErr)
    \/ \E first \in FirstParsers : RunOptional(first)
    \/ \E first \in FirstParsers : RunAndThen(first, Then(NextChar))
    \/ \E init \in InitParsers, step \in StepParsers : RunFold(init, step)

CombSpec == CombInit /\ [][CombNext]_vars

\* The scanner the recorded run started from, and the recorded first
\* parser run alone from it
CallerScanner == Scanner(last.source0, last.iter0, last.at)
FirstAlone == parse(last.first, CallerScanner)

\* The alternative ran on a scanner at `offset`: the ok probe answers the
\* offset and consumes nothing, the failing probe puts its span there.
AlternativeRanAt(result, f, offset) ==
    IF f = ProbeOk
    THEN /\ result.ok
         /\ result.result = offset
         /\ result.next.offset = offset
    ELSE /\ ~result.ok
         /\ result.err = SpanOf(offset, offset, Error("Eof"))

(***************************************************************************)
(* C3.  Failure is backtrack-by-default: when the first parser of          *)
(* or_else, then_or or optional fails, also after consuming characters,    *)
(* the alternative runs on a scanner at the caller's original offset, and  *)
(* optional answers none at that offset and never fails; when the first    *)
(* parser succeeds, or_else returns its result and scanner unchanged,      *)
(* optional wraps the value in some, then_or hands both to its ok branch.  *)
(***************************************************************************)
C3_BacktrackByDefault ==
    /\ last.op = "or_else" =>
          IF FirstAlone.ok THEN last.result = FirstAlone
          ELSE AlternativeRanAt(last.result, last.f, last.at)
    /\ last.op = "then_or" =>
          IF FirstAlone.ok
          THEN /\ last.result.ok
               /\ last.result.result =
                     <<FirstAlone.result, FirstAlone.next.offset>>
               /\ last.result.next.offset = FirstAlone.next.offset
          ELSE AlternativeRanAt(last.result, last.f, last.at)
    /\ last.op = "optional" =>
          /\ last.result.ok
          /\ IF FirstAlone.ok
             THEN /\ last.result.result = Some(FirstAlone.result)
                  /\ last.result.next.offset = FirstAlone.next.offset
             ELSE /\ last.result.result = None
                  /\ last.result.next.offset = last.at

\* The first parser consumed at least one character before it failed (its
\* diagnostic points past the caller's non-zero offset)
ConsumedThenFailed ==
    /\ last.at > 0
    /\ ~FirstAlone.ok
    /\ FirstAlone.err.span.start > last.at

C3_Witness ==
    /\ last.op = "or_else"
    /\ last.first = CharsABA
    /\ ConsumedThenFailed
    /\ FirstAlone.err.span.start = last.at + 2

(***************************************************************************)
(* C4.  p.and_then(f): when p fails the composite fails with exactly p's   *)
(* diagnostic and f is not run (nothing more is pulled); when p succeeds   *)
(* with value v and scanner s', the result is that of f(v) run on s': with *)
(* f(v) = next_char_parser().map(|w| (v, w)), the pair of v and the        *)
(* character at s', or Eof at s' when s' is the end of the input.          *)
(***************************************************************************)
C4_AndThen ==
    last.op = "and_then" =>
        IF ~FirstAlone.ok
        THEN /\ ~last.result.ok
             /\ last.result.err = FirstAlone.err
             /\ source = FirstAlone.source
             /\ iter = FirstAlone.iter
        ELSE LET v  == FirstAlone.result
                 s1 == FirstAlone.next
             IN  IF last.result.ok
                 THEN /\ last.result.result[1] = v
                      /\ last.result.result[2].span.start = s1.offset
                      /\ last.result.next.offset = s1.offset + 1
                 ELSE /\ last.result.err =
                            SpanOf(s1.offset, s1.offset, Error("Eof"))
                      /\ s1.offset = str_len(WholeInput(source, iter))

\* p succeeded after consuming, and f's parser consumed one more character
C4_Witness ==
    /\ last.op = "and_then"
    /\ last.f = Then(NextChar)
    /\ last.at > 0
    /\ FirstAlone.ok
    /\ FirstAlone.next.offset > last.at
    /\ last.result.ok

\* p failed after consuming
C4_WitnessFailure ==
    /\ last.op = "and_then"
    /\ last.f = Then(NextChar)
    /\ ConsumedThenFailed

(***************************************************************************)
(* C5.  The repetition of fold never fails: after the initial parser it    *)
(* applies the step as long as it succeeds, folds the values in input      *)
(* order, stops at the first failing step and returns the accumulator with *)
(* the scanner of the last successful step (the one after the initial      *)
(* parser if none); what the failing step consumed is given back.          *)
(***************************************************************************)
\* How many times "ab" repeats at the head of text
RECURSIVE Repeats(_)
Repeats(text) ==
    IF starts_with(text, <<"a", "b">>)
    THEN 1 + Repeats(SubSeq(text, 3, Len(text)))
    ELSE 0

\* The value of the i-th successful step that starts at byte `from`
StepValue(step, from) ==
    IF step = MatchAB THEN SpanOf(from, from + 2, <<"a", "b">>)
    ELSE SpanOf(from + 1, from + 2, "b")

C5_Fold ==
    last.op = "fold" =>
        LET init  == FirstAlone
            whole == WholeInput(last.source0, last.iter0)
        IN  IF ~init.ok THEN ~last.result.ok /\ last.result.err = init.err
            ELSE LET at == init.next.offset
                     k  == Repeats(str_from(whole, at))
                 IN  /\ last.result.ok
                     /\ last.result.next.offset = at + 2 * k
                     /\ last.result.result =
                           [i \in 1..k |-> StepValue(last.f, at + 2 * (i - 1))]

\* Two steps succeeded, then a step consumed 'a' and failed on the next
\* character; the initial parser had consumed as well
C5_Witness ==
    /\ last.op = "fold"
    /\ last.f = CharsAB
    /\ FirstAlone.ok
    /\ FirstAlone.next.offset > last.at
    /\ Len(last.result.result) = 2
    /\ first_char_from(WholeInput(source, iter), last.result.next.offset) = <<"a">>
    /\ last.result.next.offset + 1 < str_len(WholeInput(source, iter))

(***************************************************************************)
(* The expression parsers as a caller uses them: Scanner::new on a text,   *)
(* then inline_expression_parser() or multiline_expression_parser() run on *)
(* that scanner, which the caller replaces by the returned one.            *)
(***************************************************************************)
\* Scanner::new(text) for a text of the table `tests`
ExpressionInit(tests) ==
    /\ test \in tests
    /\ source = <<>>
    /\ iter = test.text
    /\ cursors = [i \in 1..NumCursors |-> 0]
    /\ last = [op |-> "new", to |-> 1]

\* let (scanner, result) = parser.parse(scanner)
RunExpression(op, parser) ==
    /\ last.op = "new"
    /\ last' = [op |-> op, to |-> 1, at |-> cursors[1],
                source0 |-> source, iter0 |-> iter,
                result |-> parse(parser, Cursor(1))]
    /\ LET r == last'.result
           after == reclone(Cursor(1), r)
       IN  /\ source' = after.source
           /\ iter' = after.iter
           /\ cursors' = IF r.ok THEN [cursors EXCEPT ![1] = r.next.offset]
                         ELSE cursors
    /\ UNCHANGED test

ParseInline == RunExpression("inline", inline_expression_parser)
ParseMultiline == RunExpression("multiline", multiline_expression_parser)

ExpressionNext ==
    \/ ParseInline
    \/ ParseMultiline

\* A parser has been run on the text of a test of `family`
Parsed(family) == test.family = family /\ last.op # "new"

\* The text was consumed to its end
WholeText(r) == r.next.offset = str_len(test.text)

\* Shapes of expressions: the identifier `name`, a Binary node of operator
\* `name`, and the two nestings of three operands a, b, c
Leaf(expr, name) == expr.e = "Ident" /\ expr.v.value = name
Node(expr, name) == expr.e = "Binary" /\ expr.operator.value.op = name
RightNested(expr, op1, op2) ==
    /\ Node(expr, op1)
    /\ Leaf(expr.left, <<"a">>)
    /\ Node(expr.right, op2)
    /\ Leaf(expr.right.left, <<"b">>)
    /\ Leaf(expr.right.right, <<"c">>)
LeftNested(expr, op1, op2) ==
    /\ Node(expr, op2)
    /\ Node(expr.left, op1)
    /\ Leaf(expr.left.left, <<"a">>)
    /\ Leaf(expr.left.right, <<"b">>)
    /\ Leaf(expr.right, <<"c">>)

\* The precedence table, loosest level first: each operator as the pair of
\* its spelling and the Operator it denotes
PrecedenceTable ==
    << {<<<<"o", "r">>, "Or">>, <<<<"|", "|">>, "Or">>},
       {<<<<"a", "n", "d">>, "And">>, <<<<"&", "&">>, "And">>},
       {<<<<"|">>, "BitOr">>},
       {<<<<"^">>, "BitXor">>},
       {<<<<"&">>, "BitAnd">>},
       {<<<<"=", "=">>, "Equals">>, <<<<"!", "=">>, "NotEq">>},
       {<<<<"<", "=">>, "LessThanEq">>, <<<<">", "=">>, "MoreThanEq">>,
        <<<<"<">>, "LessThan">>, <<<<">">>, "MoreThan">>},
       {<<<<"<", "<">>, "LShift">>, <<<<">", ">">>, "RShift">>},
       {<<<<"+">>, "Add">>, <<<<"-">>, "Sub">>},
       {<<<<"*">>, "Mul">>, <<<<"/">>, "Div">>, <<<<"%">>, "Mod">>} >>

TableOperators == UNION {PrecedenceTable[i] : i \in 1..Len(PrecedenceTable)}

\* How tightly a table operator binds: the index of its level
Tightness(operator) ==
    CHOOSE i \in 1..Len(PrecedenceTable) : operator \in PrecedenceTable[i]

\* `a op1 b op2 c`, the i-th of its four gaps filled by separator[i]
ThreeOperands(op1, op2, separator) ==
    <<"a">> \o separator[1] \o op1[1] \o separator[2] \o <<"b">>
        \o separator[3] \o op2[1] \o separator[4] \o <<"c">>

Blanks == [i \in 1..4 |-> <<" ">>]

PrecedenceTests ==
    {[family |-> "precedence", op1 |-> op1, op2 |-> op2,
      text |-> ThreeOperands(op1, op2, Blanks)] :
        op1 \in TableOperators, op2 \in TableOperators}

PrecedenceInit == ExpressionInit(PrecedenceTests)

PrecedenceSpec == PrecedenceInit /\ [][ExpressionNext]_vars

(***************************************************************************)
(* C6.  For binary operators op1, op2 of the precedence table and operands *)
(* a, b, c, the text `a op1 b op2 c` parses, to its end, to                *)
(* Binary(a, op1, Binary(b, op2, c)) when op2 binds tighter than op1, and  *)
(* to Binary(Binary(a, op1, b), op2, c) when op1 binds tighter than op2 or *)
(* the two are on the same level (left associativity).                     *)
(***************************************************************************)
C6_Precedence ==
    Parsed("precedence") =>
        LET r == last.result
        IN  /\ r.ok
            /\ WholeText(r)
            /\ IF Tightness(test.op2) > Tightness(test.op1)
               THEN RightNested(r.result, test.op1[2], test.op2[2])
               ELSE LeftNested(r.result, test.op1[2], test.op2[2])

\* A looser operator followed by a tighter one has been parsed to the
\* right-nested tree
C6_Witness ==
    /\ Parsed("precedence")
    /\ Tightness(test.op2) > Tightness(test.op1)
    /\ last.result.ok
    /\ RightNested(last.result.result, test.op1[2], test.op2[2])

(***************************************************************************)
(* Assignment chains `x1 = x2 = ... = xn = a op b`                         *)
(***************************************************************************)
MaxChain == 3

\* Left-hand sides: an identifier and a property access, which may be
\* assigned to, and an index, a call, a prefix-unary, a literal and a binary
\* expression
Assignees == {<<"x">>, <<"y", ".", "p">>}
OtherLeftSides ==
    {<<"d", "[", "0", "]">>, <<"f", "(", ")">>, <<"-", "a">>, <<"1">>,
     <<"a", " ", "+", " ", "b">>}

\* The loosest and the tightest operator of the table
LooseAndTight == {<<<<"o", "r">>, "Or">>, <<<<"*">>, "Mul">>}

RECURSIVE ChainText(_, _)
ChainText(chain, op) ==
    IF chain = <<>> THEN <<"a", " ">> \o op[1] \o <<" ", "b">>
    ELSE Head(chain) \o <<" ", "=", " ">> \o ChainText(Tail(chain), op)

AssignTest(family, chain, op) ==
    [family |-> family, chain |-> chain, op |-> op,
     text |-> ChainText(chain, op)]

\* One assignment before each operator of the table; longer chains before
\* the loosest and the tightest operator
AssignTests ==
    {AssignTest("assign", <<x>>, op) : x \in Assignees, op \in TableOperators}
        \cup {AssignTest("assign", chain, op) :
                chain \in {c \in SeqsUpTo(Assignees, MaxChain) : Len(c) > 1},
                op \in LooseAndTight}

LeftSideTests ==
    {AssignTest("left side", <<x>>, op) :
        x \in OtherLeftSides, op \in LooseAndTight}

AssignInit == ExpressionInit(AssignTests \cup LeftSideTests)

AssignSpec == AssignInit /\ [][ExpressionNext]_vars

\* expr is the assignee spelled `text`
IsAssignee(expr, text) ==
    IF text = <<"x">> THEN Leaf(expr, <<"x">>)
    ELSE /\ expr.e = "PostfixUnary"
         /\ Leaf(expr.operand, <<"y">>)
         /\ expr.operator.value.postfix = "Property"
         /\ expr.operator.value.v.value = <<"p">>

\* expr is chain[1] = (chain[2] = (... = (a op b)))
RECURSIVE AssignChain(_, _, _)
AssignChain(expr, chain, op) ==
    IF chain = <<>>
    THEN /\ Node(expr, op[2])
         /\ Leaf(expr.left, <<"a">>)
         /\ Leaf(expr.right, <<"b">>)
    ELSE /\ Node(expr, "Assign")
         /\ expr.operator.value.of = None
         /\ IsAssignee(expr.left, Head(chain))
         /\ AssignChain(expr.right, Tail(chain), op)

(***************************************************************************)
(* C7.  Assignment is right-associative and binds looser than every binary *)
(* operator: a chain x1 = x2 = ... = xn = a op b of identifiers and        *)
(* property accesses parses, to its end, to                                *)
(* x1 = (x2 = (... = (xn = Binary(a, op, b)))).                            *)
(***************************************************************************)
C7_AssignChain ==
    Parsed("assign") =>
        LET r == last.result
        IN  /\ r.ok
            /\ WholeText(r)
            /\ AssignChain(r.result, test.chain, test.op)

\* A chain of three assignments that ends in a property access has been
\* parsed to the right-nested tree
C7_Witness ==
    /\ Parsed("assign")
    /\ Len(test.chain) = 3
    /\ test.chain[3] = <<"y", ".", "p">>
    /\ last.result.ok
    /\ AssignChain(last.result.result, test.chain, test.op)

(***************************************************************************)
(* C8.  A top-level `=` whose left side is not an identifier or a property *)
(* access (an index, a call, a prefix-unary, a literal, a binary           *)
(* expression) makes the expression parser fail with a CannotAssign        *)
(* diagnostic whose span is that left side.                                *)
(***************************************************************************)
C8_CannotAssign ==
    Parsed("left side") =>
        LET r == last.result
        IN  /\ ~r.ok
            /\ r.err.value.kind = "CannotAssign"
            /\ r.err.span = Span(0, str_len(test.chain[1]))

\* What the parser answers instead: the Binary node of the Assign operator
\* over the left side as it stands
C8_AcceptedAsBinary ==
    Parsed("left side") =>
        LET r == last.result
        IN  /\ r.ok
            /\ WholeText(r)
            /\ Node(r.result, "Assign")
            /\ r.result.left.e \in {"PostfixUnary", "PrefixUnary", "Number", "Binary"}

(***************************************************************************)
(* Newlines: `a op1 b op2 c` with one newline in one of its four gaps, and *)
(* a bracket pair around `a + b` or `a , b`, followed by `+ c`, with one   *)
(* newline in one of its five gaps (the fifth after the closing bracket).  *)
(***************************************************************************)
AssignOperator == <<<<"=">>, "Assign">>
Plus == <<<<"+">>, "Add">>
Comma == <<<<",">>, "Comma">>

\* separator[i] with a newline in gap nl and a blank in the others
NewlineAt(nl, gaps) == [i \in 1..gaps |-> IF i = nl THEN <<NL>> ELSE <<" ">>]

\* Pairs of operators whose left sides may be assigned to
NewlineOperators ==
    {<<op1, op2>> \in (LooseAndTight \cup {Plus, AssignOperator})
                        \X (LooseAndTight \cup {Plus, AssignOperator}) :
        op2 = AssignOperator => op1 = AssignOperator}

NewlineTests ==
    {[family |-> "newline", kind |-> "none", op1 |-> ops[1], op2 |-> ops[2],
      nl |-> nl, text |-> ThreeOperands(ops[1], ops[2], NewlineAt(nl, 4))] :
        ops \in NewlineOperators, nl \in 1..4}

\* separator[i] with a block comment that holds a newline in gap nl
CommentAt(nl) ==
    [i \in 1..4 |-> IF i = nl THEN <<" ", "/", "*", NL, "*", "/", " ">>
                    ELSE <<" ">>]

\* The same texts with the newline inside a block comment, and
\* `a op1 b op2 c` after a prefix minus and a newline
CommentTests ==
    {[family |-> "newline", kind |-> "comment", op1 |-> op1, op2 |-> op2,
      nl |-> nl, text |-> ThreeOperands(op1, op2, CommentAt(nl))] :
        op1 \in LooseAndTight, op2 \in LooseAndTight, nl \in 1..4}
PrefixTests ==
    {[family |-> "newline", kind |-> "prefix", op1 |-> op1, op2 |-> op2,
      nl |-> 0, text |-> <<"-", NL>> \o ThreeOperands(op1, op2, Blanks)] :
        op1 \in LooseAndTight, op2 \in LooseAndTight}

BracketKinds == {"group", "array", "index", "call"}
Open(kind) ==
    CASE kind = "group" -> <<"(">>
      [] kind = "array" -> <<"[">>
      [] kind = "index" -> <<"d", "[">>
      [] kind = "call" -> <<"f", "(">>
Close(kind) == IF kind \in {"group", "call"} THEN <<")">> ELSE <<"]">>
Inner(kind) == IF kind \in {"group", "index"} THEN Plus ELSE Comma

\* Open a Inner b Close + c
BracketText(kind, separator) ==
    Open(kind) \o separator[1] \o <<"a">> \o separator[2] \o Inner(kind)[1]
        \o separator[3] \o <<"b">> \o separator[4] \o Close(kind)
        \o separator[5] \o <<"+", " ", "c">>

BracketTests ==
    {[family |-> "bracket", kind |-> kind, op1 |-> Inner(kind), op2 |-> Plus,
      nl |-> nl, text |-> BracketText(kind, NewlineAt(nl, 5))] :
        kind \in BracketKinds, nl \in 0..5}

NewlineInit ==
    ExpressionInit(NewlineTests \cup CommentTests \cup PrefixTests
                       \cup BracketTests)

NewlineSpec == NewlineInit /\ [][ExpressionNext]_vars

\* The byte offset of the newline of an ASCII text
NewlineOffset(text) == (CHOOSE i \in 1..Len(text) : text[i] = NL) - 1

\* Binary(a, op, b)
Pair(expr, name) ==
    Node(expr, name) /\ Leaf(expr.left, <<"a">>) /\ Leaf(expr.right, <<"b">>)

\* op2 binds tighter than op1, or both are assignments
NestsRight(op1, op2) ==
    IF op1 = AssignOperator THEN TRUE
    ELSE Tightness(op2) > Tightness(op1)

\* The whole `a op1 b op2 c` of the test, nested by precedence
WholeExpression(r) ==
    /\ WholeText(r)
    /\ IF NestsRight(test.op1, test.op2)
       THEN RightNested(r.result, test.op1[2], test.op2[2])
       ELSE LeftNested(r.result, test.op1[2], test.op2[2])

\* The longest complete prefix before gap test.nl: a, or Binary(a, op1, b)
PrefixBefore(r) ==
    IF test.nl <= 2 THEN Leaf(r.result, <<"a">>)
    ELSE Pair(r.result, test.op1[2])

(***************************************************************************)
(* C9 as stated.  In inline mode, when a newline outside any bracket       *)
(* occurs inside an expression, the parser succeeds with the longest       *)
(* complete prefix that ends before that newline and leaves the cursor     *)
(* before the newline; in multi-line mode the newline is skipped and the   *)
(* expression continues.                                                   *)
(***************************************************************************)
C9_EveryNewline ==
    Parsed("newline") =>
        LET r == last.result
        IN  /\ r.ok
            /\ IF last.op = "multiline" THEN WholeText(r)
               ELSE /\ r.next.offset <= NewlineOffset(test.text)
                    /\ test.kind # "prefix" => PrefixBefore(r)

(***************************************************************************)
(* C9.  In inline mode a newline outside any bracket and outside a block   *)
(* comment, with a complete expression before it, ends the expression:     *)
(* the parser succeeds with the longest complete prefix that ends before   *)
(* the newline (`a` when the newline comes before b, `a op1 b` when it     *)
(* comes later), leaves the cursor at the end of that prefix, before the   *)
(* newline, and does not consume an operator left dangling before the      *)
(* newline.  A newline inside a block comment is skipped with the comment  *)
(* and the expression continues; a newline with no complete expression     *)
(* before it (after a prefix operator at the start) makes the parser fail  *)
(* with NoExpression.  In multi-line mode the newline is skipped and the   *)
(* whole text is parsed.                                                   *)
(***************************************************************************)
C9_NewlinePolicy ==
    Parsed("newline") =>
        LET r == last.result
        IN  CASE test.kind = "none" ->
                    /\ r.ok
                    /\ IF last.op = "multiline" THEN WholeExpression(r)
                       ELSE /\ r.next.offset <= NewlineOffset(test.text)
                            /\ PrefixBefore(r)
                            /\ r.next.offset =
                                  IF test.nl <= 2 THEN 1
                                  ELSE Len(test.op1[1]) + 4
              [] test.kind = "comment" -> r.ok /\ WholeExpression(r)
              [] test.kind = "prefix" ->
                    IF last.op = "multiline" THEN r.ok /\ WholeText(r)
                    ELSE /\ ~r.ok
                         /\ r.err.value.kind = "NoExpression"

\* Inline, `a =` newline `b ...`: the answer is a, the cursor is after a and
\* the dangling `=` is not consumed
C9_Witness ==
    /\ Parsed("newline")
    /\ last.op = "inline"
    /\ test.op1 = AssignOperator
    /\ test.nl = 2
    /\ last.result.ok
    /\ Leaf(last.result.result, <<"a">>)
    /\ cursors[1] = 1

\* expr is the bracketed expression of `kind` over a and b
Elements(exprs) ==
    Len(exprs) = 2 /\ Leaf(exprs[1], <<"a">>) /\ Leaf(exprs[2], <<"b">>)
Bracketed(expr, kind) ==
    CASE kind = "group" -> expr.e = "Group" /\ Pair(expr.v.value, "Add")
      [] kind = "array" -> expr.e = "Array" /\ Elements(expr.v.value)
      [] kind = "index" ->
            /\ expr.e = "PostfixUnary"
            /\ Leaf(expr.operand, <<"d">>)
            /\ expr.operator.value.postfix = "Index"
            /\ Pair(expr.operator.value.v, "Add")
      [] kind = "call" ->
            /\ expr.e = "PostfixUnary"
            /\ Leaf(expr.operand, <<"f">>)
            /\ expr.operator.value.postfix = "Call"
            /\ Elements(expr.operator.value.v)

\* What a parse of a bracket test answers when newlines between the
\* brackets are whitespace and the caller's mode applies after them
BracketsMultiline(kinds) ==
    (Parsed("bracket") /\ test.kind \in kinds) =>
        LET r == last.result
        IN  /\ r.ok
            /\ IF test.nl = 5 /\ last.op = "inline"
               THEN /\ Bracketed(r.result, test.kind)
                    /\ r.next.offset = Len(test.text) - 4
               ELSE /\ WholeText(r)
                    /\ Node(r.result, "Add")
                    /\ Bracketed(r.result.left, test.kind)
                    /\ Leaf(r.result.right, <<"c">>)

(***************************************************************************)
(* C10.  Every bracket pair (group, array, index, call) opens a multi-line *)
(* context whatever the caller's mode: a newline anywhere between the      *)
(* opening and the closing bracket is whitespace, and after the closing    *)
(* bracket the caller's mode applies again.                                *)
(***************************************************************************)
C10_BracketsMultiline == BracketsMultiline(BracketKinds)

\* The same for the brackets of primary expressions alone
C10_GroupAndArray == BracketsMultiline({"group", "array"})

(***************************************************************************)
(* Statement lists: statements_parser() run on a text made of tokens, one  *)
(* blank between two tokens.  The tokens are "S" (a statement: the k-th    *)
(* one is the call `a()`, `b()`, ...), the separators ";", "N" (newline)   *)
(* and "R" (CR LF), and "W" (the word of the test, on its own).            *)
(***************************************************************************)
MaxTokens == 3

ParseStatement == RunExpression("statement", statement_parser)
ParseStatements == RunExpression("statements", statements_parser)

Separators == {";", "N", "R"}
StatementNames == <<<<"a">>, <<"b">>, <<"c">>, <<"d">>, <<"e">>>>

\* Words that start with a terminator keyword, or are one but for the case
Lookalikes ==
    {KwEnd \o <<"p", "o", "i", "n", "t">>, KwElse \o <<"1">>,
     KwElif \o <<"_">>, KwOnbreak \o <<"s">>, <<"E", "n", "d">>}
Terminators == {TERMINATORS[i] : i \in 1..Len(TERMINATORS)}

\* The text of token `token`, the k-th statement being next
TokenText(token, k, word) ==
    CASE token = "S" -> StatementNames[k] \o <<"(", ")">>
      [] token = ";" -> <<";">>
      [] token = "N" -> <<NL>>
      [] token = "R" -> <<CR, NL>>
      [] token = "W" -> word

RECURSIVE ListText(_, _, _, _)
ListText(tokens, i, k, word) ==
    IF i > Len(tokens) THEN <<>>
    ELSE (IF i = 1 THEN <<>> ELSE <<" ">>)
            \o TokenText(tokens[i], k, word)
            \o ListText(tokens, i + 1, IF tokens[i] = "S" THEN k + 1 ELSE k, word)

ListTest(family, tokens, word) ==
    [family |-> family, tokens |-> tokens, word |-> word,
     text |-> ListText(tokens, 1, 1, word)]

\* Every sequence of statements and separators up to MaxTokens tokens, alone
\* and before `end`
SeparatorTests ==
    {ListTest("separators", tokens \o tail, KwEnd) :
        tokens \in SeqsUpTo(Separators \cup {"S"}, MaxTokens),
        tail \in {<<>>, <<"W">>}}

\* A terminator keyword or a lookalike, first or after a statement, with a
\* statement after it
TerminatorTests ==
    {ListTest("terminators", before \o <<"W", sep, "S">>, word) :
        before \in {<<>>, <<"S", ";">>, <<"S", "N">>, <<"S">>},
        sep \in {";", "N"},
        word \in Terminators \cup Lookalikes}

ListInit == ExpressionInit(SeparatorTests \cup TerminatorTests)

ListNext ==
    \/ ParseStatements

ListSpec == ListInit /\ [][ListNext]_vars

\* The statements a list of tokens holds, in order: a statement counts when
\* it is the first or a separator lies between it and the one before, the
\* list ends at the first statement that has none and at a terminator
RECURSIVE ExpectedList(_, _, _, _, _)
ExpectedList(tokens, i, k, separated, word) ==
    IF i > Len(tokens) THEN <<>>
    ELSE CASE tokens[i] \in Separators ->
                ExpectedList(tokens, i + 1, k, TRUE, word)
           [] tokens[i] = "S" ->
                IF separated
                THEN <<<<"call", StatementNames[k]>>>>
                        \o ExpectedList(tokens, i + 1, k + 1, FALSE, word)
                ELSE <<>>
           [] tokens[i] = "W" ->
                IF separated /\ word \notin Terminators
                THEN <<<<"ident", word>>>>
                        \o ExpectedList(tokens, i + 1, k, FALSE, word)
                ELSE <<>>

\* stmt is the expression statement `name()` or `name`
IsStatement(stmt, expected) ==
    /\ stmt.s = "Expression"
    /\ IF expected[1] = "ident" THEN Leaf(stmt.v, expected[2])
       ELSE /\ stmt.v.e = "PostfixUnary"
            /\ Leaf(stmt.v.operand, expected[2])
            /\ stmt.v.operator.value.postfix = "Call"
            /\ stmt.v.operator.value.v = <<>>

IsList(list, expected) ==
    /\ Len(list.stmts) = Len(expected)
    /\ \A i \in 1..Len(expected) : IsStatement(list.stmts[i], expected[i])

\* The byte offset of the word in the text of the test
WordOffset ==
    LET at == CHOOSE i \in 1..Len(test.tokens) : test.tokens[i] = "W"
    IN  Len(ListText(SubSeq(test.tokens, 1, at - 1), 1, 1, test.word))
            + (IF at = 1 THEN 0 ELSE 1)

(***************************************************************************)
(* C11.  The statement list parser succeeds with exactly the statements of *)
(* the text in source order, as far as each is the first or has at least   *)
(* one separator (`;`, newline, CR LF) between it and the one before:      *)
(* extra separators before, between and after statements add no statement, *)
(* a statement with no separator before it is not taken into the list, and *)
(* the last statement before `end` needs no separator.                     *)
(***************************************************************************)
C11_Separators ==
    Parsed("separators") =>
        LET r == last.result
        IN  /\ r.ok
            /\ IsList(r.result, ExpectedList(test.tokens, 1, 1, TRUE, test.word))

\* Two statements with one separator between them and none before `end`
\* have been parsed to a list of two
C11_Witness ==
    /\ Parsed("separators")
    /\ test.tokens = <<"S", ";", "S", "W">>
    /\ last.result.ok
    /\ Len(last.result.result.stmts) = 2

(***************************************************************************)
(* C12.  A statement list ends where the next token, read as a whole       *)
(* identifier, is one of end, else, elif, onbreak, oncontinue: the list    *)
(* holds the statements before it only and the cursor is at or before the  *)
(* terminator.  A word that only starts with a terminator keyword is an    *)
(* ordinary statement and the list goes on after it.                       *)
(***************************************************************************)
C12_Terminators ==
    Parsed("terminators") =>
        LET r == last.result
        IN  /\ r.ok
            /\ IsList(r.result, ExpectedList(test.tokens, 1, 1, TRUE, test.word))
            /\ test.word \in Terminators => r.next.offset <= WordOffset
            /\ (test.word \notin Terminators /\ test.tokens[2] # "W")
                  => r.next.offset > WordOffset

\* A list of one statement has ended before `oncontinue`, which follows a
\* newline
C12_Witness ==
    /\ Parsed("terminators")
    /\ test.word = KwOncontinue
    /\ test.tokens[2] = "N"
    /\ last.result.ok
    /\ Len(last.result.result.stmts) = 1
    /\ cursors[1] <= WordOffset

(***************************************************************************)
(* While statements: `while x do a()` followed by up to MaxHooks hooks     *)
(* ("B" for onbreak, "C" for oncontinue) and `end`; the i-th hook holds    *)
(* the i-th next statement (`b()`, `c()`, ...) or nothing.                 *)
(***************************************************************************)
MaxHooks == 3

HookKeyword(hook) == IF hook = "B" THEN KwOnbreak ELSE KwOncontinue

RECURSIVE HooksText(_, _, _, _)
HooksText(hooks, i, gap, filled) ==
    IF i > Len(hooks) THEN <<>>
    ELSE gap \o HookKeyword(hooks[i])
            \o (IF filled THEN <<" ">> \o StatementNames[i + 1] \o <<"(", ")">>
                ELSE <<>>)
            \o HooksText(hooks, i + 1, gap, filled)

WhileText(hooks, gap, filled) ==
    KwWhile \o <<" ", "x", " ">> \o KwDo \o <<" ", "a", "(", ")">>
        \o HooksText(hooks, 1, gap, filled) \o gap \o KwEnd

WhileTests ==
    {[family |-> "while", hooks |-> hooks, gap |-> gap, filled |-> filled,
      text |-> WhileText(hooks, gap, filled)] :
        hooks \in SeqsUpTo({"B", "C"}, MaxHooks),
        gap \in {<<" ">>, <<NL>>},
        filled \in BOOLEAN}

WhileInit == ExpressionInit(WhileTests)

StatementNext ==
    \/ ParseStatement
    \/ ParseStatements

WhileSpec == WhileInit /\ [][StatementNext]_vars

\* The statement parsed: the answer of statement_parser, or the first of the
\* list statements_parser answers
FirstStatement ==
    IF last.op = "statement" THEN <<last.result.result>>
    ELSE IF last.result.result.stmts = <<>> THEN <<>>
    ELSE <<last.result.result.stmts[1]>>

\* The positions of `hook` among the hooks of the test
HookAt(hook) == {i \in 1..Len(test.hooks) : test.hooks[i] = hook}

\* The block of `hook`: none when the hook is absent, else its statements
IsHookBlock(block, hook) ==
    IF HookAt(hook) = {} THEN block = None
    ELSE /\ block # None
         /\ IsList(block[1],
                   IF test.filled
                   THEN <<<<"call", StatementNames[(CHOOSE i \in HookAt(hook) : TRUE) + 1]>>>>
                   ELSE <<>>)

(***************************************************************************)
(* C13.  The while parser accepts the hooks after the body in either       *)
(* order, each at most once: break_block and continue_block are present    *)
(* exactly when the hook appears and hold the hook's statements, and the   *)
(* whole text is consumed.  When onbreak or oncontinue appears a second    *)
(* time before `end`, the text is not accepted as a While statement.       *)
(***************************************************************************)
C13_WhileHooks ==
    Parsed("while") =>
        LET r == last.result
        IN  IF Cardinality(HookAt("B")) <= 1 /\ Cardinality(HookAt("C")) <= 1
            THEN /\ r.ok
                 /\ WholeText(r)
                 /\ FirstStatement # <<>>
                 /\ FirstStatement[1].s = "While"
                 /\ Leaf(FirstStatement[1].v.condition, <<"x">>)
                 /\ IsList(FirstStatement[1].v.while_block, <<<<"call", <<"a">>>>>>)
                 /\ IsHookBlock(FirstStatement[1].v.break_block, "B")
                 /\ IsHookBlock(FirstStatement[1].v.continue_block, "C")
            ELSE r.ok => (FirstStatement = <<>> \/ FirstStatement[1].s # "While")

\* oncontinue then onbreak, each with a statement, have been accepted
C13_Witness ==
    /\ Parsed("while")
    /\ test.hooks = <<"C", "B">>
    /\ test.filled
    /\ last.result.ok
    /\ FirstStatement[1].s = "While"
    /\ FirstStatement[1].v.break_block # None
    /\ FirstStatement[1].v.continue_block # None

(***************************************************************************)
(* If statements: `if x do a()` followed by up to MaxClauses clauses       *)
(* (`elif y do ...` or `else ...`) and one `end`; the block of the i-th    *)
(* clause holds the i-th next statement (`b()`, `c()`, ...) or nothing.    *)
(***************************************************************************)
MaxClauses == 3

BlockText(i, filled) ==
    IF filled THEN <<" ">> \o StatementNames[i] \o <<"(", ")">> ELSE <<>>

RECURSIVE ClausesText(_, _, _, _)
ClausesText(clauses, i, gap, filled) ==
    IF i > Len(clauses) THEN <<>>
    ELSE gap
            \o (IF clauses[i] = "elif" THEN KwElif \o <<" ", "y", " ">> \o KwDo
                ELSE KwElse)
            \o BlockText(i + 1, filled)
            \o ClausesText(clauses, i + 1, gap, filled)

IfText(clauses, gap, filled) ==
    KwIf \o <<" ", "x", " ">> \o KwDo \o BlockText(1, filled)
        \o ClausesText(clauses, 1, gap, filled) \o gap \o KwEnd

IfTests ==
    {[family |-> "if", clauses |-> clauses, gap |-> gap, filled |-> filled,
      text |-> IfText(clauses, gap, filled)] :
        clauses \in SeqsUpTo({"elif", "else"}, MaxClauses),
        gap \in {<<" ">>, <<NL>>},
        filled \in BOOLEAN}

IfInit == ExpressionInit(IfTests)

IfSpec == IfInit /\ [][StatementNext]_vars

\* A chain is well formed when `else` comes last only
WellFormed(clauses) ==
    \A i \in 1..Len(clauses) : clauses[i] = "else" => i = Len(clauses)

\* The block of clause i - 1 (of the `if` itself for i = 1)
IsBlock(block, i) ==
    IsList(block, IF test.filled THEN <<<<"call", StatementNames[i]>>>> ELSE <<>>)

\* ifstmt is the IfStmt of clause i - 1 with clauses i.. nested in it
RECURSIVE IsIfChain(_, _)
IsIfChain(ifstmt, i) ==
    /\ Leaf(ifstmt.condition, IF i = 1 THEN <<"x">> ELSE <<"y">>)
    /\ IsBlock(ifstmt.then_block, i)
    /\ IF i > Len(test.clauses) THEN ifstmt.else_block = None
       ELSE /\ ifstmt.else_block # None
            /\ IF test.clauses[i] = "elif"
               THEN /\ ifstmt.else_block[1].else = "Elif"
                    /\ IsIfChain(ifstmt.else_block[1].v, i + 1)
               ELSE /\ ifstmt.else_block[1].else = "Else"
                    /\ IsBlock(ifstmt.else_block[1].v, i + 1)

(***************************************************************************)
(* C14.  An `if c1 do S1 (elif ci do Si)* (else Se)? end` chain is closed  *)
(* by exactly one `end`: each elif is an IfStmt nested in the else_block   *)
(* of the one before as ElseBlock::Elif, a final else is the               *)
(* ElseBlock::Else of the innermost IfStmt, else_block is none when        *)
(* neither follows; a chain with an elif or an else after an else is not   *)
(* accepted as an If statement.                                            *)
(***************************************************************************)
C14_IfChain ==
    Parsed("if") =>
        LET r == last.result
        IN  IF WellFormed(test.clauses)
            THEN /\ r.ok
                 /\ WholeText(r)
                 /\ FirstStatement # <<>>
                 /\ FirstStatement[1].s = "If"
                 /\ IsIfChain(FirstStatement[1].v, 1)
            ELSE r.ok => (FirstStatement = <<>> \/ FirstStatement[1].s # "If")

\* if, elif, elif, else with one `end` has been parsed to three nested
\* IfStmt
C14_Witness ==
    /\ Parsed("if")
    /\ test.clauses = <<"elif", "elif", "else">>
    /\ last.result.ok
    /\ WholeText(last.result)
    /\ FirstStatement[1].s = "If"
    /\ FirstStatement[1].v.else_block[1].v.else_block[1].v.else_block[1].else = "Else"

(***************************************************************************)
(* Number literals: number_parser on one literal built of a radix prefix,  *)
(* a whole part, an optional dot and fraction, an optional exponent marker *)
(* with sign and digits, and a tail that is no part of the number.         *)
(***************************************************************************)
ParseNumber == RunExpression("number", number_parser(FALSE))

NumberNext == \/ ParseNumber

Radixes == {2, 8, 10, 16}

RadixPrefix(radix) ==
    CASE radix = 2 -> <<"0", "b">>
      [] radix = 8 -> <<"0", "o">>
      [] radix = 16 -> <<"0", "x">>
      [] OTHER -> <<>>

\* The exponent markers of a radix
Markers(radix) == IF radix <= 10 THEN {<<"e">>, <<"E">>} ELSE {<<"p">>, <<"P">>}

DecimalText(t) ==
    RadixPrefix(t.radix) \o t.whole \o (IF t.dot THEN <<".">> \o t.frac ELSE <<>>)

NumberTest(family, radix, whole, dot, frac, marker, sign, digits, tail) ==
    LET t == [family |-> family, radix |-> radix, whole |-> whole, dot |-> dot,
              frac |-> frac, marker |-> marker, sign |-> sign,
              digits |-> digits, tail |-> tail]
    IN  [family |-> family, radix |-> radix, whole |-> whole, dot |-> dot,
         frac |-> frac, marker |-> marker, sign |-> sign, digits |-> digits,
         tail |-> tail,
         text |-> DecimalText(t) \o marker \o sign \o digits \o tail]

\* Digits every radix has, with and without separators
Wholes == {<<"1">>, <<"1", "0">>, <<"1", "_", "1">>}
Fractions == {<<"1">>, <<"0", "1">>, <<"1", "_", "1">>, <<"0", "_", "1">>,
              <<"1", "_", "0", "_", "1">>}

FractionTests ==
    {NumberTest("fraction", radix, whole, FALSE, <<>>, <<>>, <<>>, <<>>, tail) :
        radix \in Radixes, whole \in Wholes, tail \in {<<>>, <<" ">>}}
    \cup {NumberTest("fraction", radix, whole, TRUE, frac, <<>>, <<>>, <<>>, <<>>) :
            radix \in Radixes, whole \in Wholes, frac \in Fractions \cup {<<>>}}

\* Decimals without separators
Decimals(radix) ==
    {<<<<"1">>, FALSE, <<>>>>, <<<<"1">>, TRUE, <<"1">>>>,
     <<<<"1", "0">>, TRUE, <<>>>>}
    \cup (IF radix = 16 THEN {<<<<"3">>, TRUE, <<"f">>>>} ELSE {})

\* radix and decimal of the tests that follow a decimal
RadixDecimals ==
    UNION {{<<radix, d>> : d \in Decimals(radix)} : radix \in Radixes}

MarkerTests ==
    UNION {{NumberTest("marker", rd[1], rd[2][1], rd[2][2], rd[2][3],
                       marker, sign, <<>>, tail) :
               marker \in Markers(rd[1]), sign \in {<<>>, <<"+">>, <<"-">>},
               tail \in {<<>>, <<" ">>}}
           \cup {NumberTest("marker", rd[1], rd[2][1], rd[2][2], rd[2][3],
                            <<>>, <<>>, <<>>, tail) :
                    tail \in {<<>>, <<" ">>}} :
           rd \in RadixDecimals}

\* Small exponents in every radix; 2^31 - 1, 2^31 and 2^31 + 1 in the
\* radixes that write them in few digits
RECURSIVE Repeat(_, _)
Repeat(ch, n) == IF n = 0 THEN <<>> ELSE <<ch>> \o Repeat(ch, n - 1)

ExponentDigits(radix) ==
    {<<"1">>, <<"1", "0">>, <<"1", "_", "1">>}
    \cup CASE radix = 10 ->
                {<<"2", "1", "4", "7", "4", "8", "3", "6", "4", "7">>,
                 <<"2", "1", "4", "7", "4", "8", "3", "6", "4", "8">>,
                 <<"2", "1", "4", "7", "4", "8", "3", "6", "4", "9">>}
           [] radix = 16 ->
                {<<"f">>, <<"7">> \o Repeat("f", 7), <<"8">> \o Repeat("0", 7),
                 <<"8">> \o Repeat("0", 6) \o <<"1">>}
           [] OTHER -> {}

ExponentTests ==
    UNION {{NumberTest("exponent", rd[1], rd[2][1], rd[2][2], rd[2][3],
                       marker, sign, digits, <<>>) :
               marker \in Markers(rd[1]), sign \in {<<>>, <<"+">>, <<"-">>},
               digits \in ExponentDigits(rd[1])} :
           rd \in RadixDecimals}

NumberInit == ExpressionInit(FractionTests \cup MarkerTests \cup ExponentTests)

NumberSpec == NumberInit /\ [][NumberNext]_vars

\* The value of a digit text in a radix, and the number of its digits:
\* separators carry no value and are not counted
RECURSIVE DigitsValue(_, _)
DigitsValue(text, radix) ==
    IF text = <<>> THEN BigUint(0)
    ELSE LET front == DigitsValue(SubSeq(text, 1, Len(text) - 1), radix)
             ch    == text[Len(text)]
         IN  IF ch = "_" THEN front
             ELSE BigUint_add(BigUint_mul(front, radix),
                              BigUint(to_digit(ch, radix)[1]))

DigitCount(text) == Cardinality({i \in 1..Len(text) : text[i] # "_"})

\* W.F as the sum W * r^n + F with n the number of digits of F
DecimalValue(t) ==
    IF t.dot
    THEN NumberToken(t.radix,
                     BigUint_add(BigUint_mul_times(DigitsValue(t.whole, t.radix),
                                                   t.radix, DigitCount(t.frac)),
                                 DigitsValue(t.frac, t.radix)),
                     Some(-DigitCount(t.frac)))
    ELSE NumberToken(t.radix, DigitsValue(t.whole, t.radix), None)

\* r is the decimal of the test alone, the cursor behind it
IsDecimalAlone(r) ==
    /\ r.ok
    /\ r.result.value = DecimalValue(test)
    /\ r.next.offset = str_len(DecimalText(test))

(***************************************************************************)
(* C16.  A literal W.F in radix r whose fraction F has n >= 0 digits       *)
(* (separators allowed) is the integer W * r^n + F with exponent -n, n     *)
(* counting digits only; a dot with no digit gives exponent 0; without a   *)
(* dot and an exponent marker the exponent is none.                        *)
(***************************************************************************)
C16_Fraction ==
    Parsed("fraction") =>
        LET r == last.result
        IN  /\ r.ok
            /\ r.result.value = DecimalValue(test)
            /\ r.result.span = Span(0, str_len(DecimalText(test)))

\* What the parser does: a fraction without separators is read that way
C16_WithoutSeparators ==
    (Parsed("fraction") /\ \A i \in 1..Len(test.frac) : test.frac[i] # "_") =>
        /\ last.result.ok
        /\ last.result.result.value = DecimalValue(test)

(***************************************************************************)
(* C17.  A decimal followed by the exponent marker of its radix and an     *)
(* optional sign, with no digit after them, fails with MissingExponent     *)
(* and is not the decimal alone; without the marker the result is the      *)
(* decimal unchanged.                                                      *)
(***************************************************************************)
C17_MissingExponent ==
    Parsed("marker") =>
        LET r == last.result
        IN  IF test.marker # <<>>
            THEN /\ ~r.ok
                 /\ r.err.value.kind = "MissingExponent"
            ELSE IsDecimalAlone(r)

\* What the parser does: with or without digitless marker, the decimal alone
C17_DecimalAlone == Parsed("marker") => IsDecimalAlone(last.result)

\* The sum of the signed exponent digits and the exponent of the fraction
ExponentSum(t) ==
    LET digits == BigInt(FALSE, DigitsValue(t.digits, t.radix))
        signed == IF t.sign = <<"-">> THEN BigInt_neg(digits) ELSE digits
        old    == DecimalValue(t).exponent
    IN  IF old = None THEN signed
        ELSE BigInt_add(signed, BigInt_from_i32(old[1]))

(***************************************************************************)
(* C18.  The exponent digits are read in the radix of the literal, negated *)
(* after `-` and added to the exponent of the fraction: a sum in the i32   *)
(* range is the exponent of the number, any other sum fails with           *)
(* ExponentOverflow; the exponent is never wrapped.                        *)
(***************************************************************************)
C18_ExponentSum ==
    Parsed("exponent") =>
        LET r   == last.result
            sum == i32_try_from(ExponentSum(test))
        IN  IF sum # None
            THEN /\ r.ok
                 /\ WholeText(r)
                 /\ r.result.value
                      = NumberToken(test.radix, DecimalValue(test).integer, sum)
            ELSE /\ ~r.ok
                 /\ r.err.value.kind = "ExponentOverflow"

\* An exponent in the i32 range is the sum
C18_InRange ==
    (Parsed("exponent") /\ i32_try_from(ExponentSum(test)) # None) =>
        /\ last.result.ok
        /\ WholeText(last.result)
        /\ last.result.result.value.exponent = i32_try_from(ExponentSum(test))

\* What the parser does with any other sum: the decimal alone
C18_OutOfRange ==
    (Parsed("exponent") /\ i32_try_from(ExponentSum(test)) = None) =>
        IsDecimalAlone(last.result)

(***************************************************************************)
(* Round trip of a Number: Display writes it, number_parser reads the      *)
(* text back.                                                              *)
(***************************************************************************)
Integers10 == {0, 1, 9, 10, 255}
Exponents == {None, Some(0), Some(1), Some(-1), Some(10), Some(-16),
              Some(2147483647), Some(-2147483647 - 1)}

Numbers ==
    {NumberToken(radix, BigUint(integer), exponent) :
        radix \in Radixes, integer \in Integers10, exponent \in Exponents}

RoundTripInit ==
    /\ test \in {[family |-> "round trip", number |-> number] : number \in Numbers}
    /\ source = <<>>
    /\ iter = <<>>
    /\ cursors = [i \in 1..NumCursors |-> 0]
    /\ last = [op |-> "new", to |-> 1]

\* number.to_string(), handed to a new scanner
DisplayNumber ==
    /\ last.op = "new"
    /\ iter' = Number_to_string(test.number)
    /\ last' = [op |-> "display", to |-> 1]
    /\ UNCHANGED <<test, source, cursors>>

\* number_parser on the text written
ParseDisplayed ==
    /\ last.op = "display"
    /\ last' = [op |-> "displayed", to |-> 1, at |-> cursors[1],
                source0 |-> source, iter0 |-> iter,
                result |-> parse(number_parser(FALSE), Cursor(1))]
    /\ LET r     == last'.result
           after == reclone(Cursor(1), r)
       IN  /\ source' = after.source
           /\ iter' = after.iter
           /\ cursors' = IF r.ok THEN [cursors EXCEPT ![1] = r.next.offset]
                         ELSE cursors
    /\ UNCHANGED test

RoundTripNext ==
    \/ DisplayNumber
    \/ ParseDisplayed

RoundTripSpec == RoundTripInit /\ [][RoundTripNext]_vars

\* The text was read back whole as the number it was written from
ReadBack ==
    LET r == last.result
    IN  /\ r.ok
        /\ r.next.offset = str_len(last.iter0)
        /\ r.result.value = test.number

(***************************************************************************)
(* C15.  For every Number with radix 2, 8, 10 or 16, any integer and an    *)
(* exponent that is none or any i32, number_parser consumes the whole text *)
(* Display writes and returns an equal Number.                             *)
(***************************************************************************)
C15_RoundTrip == last.op = "displayed" => ReadBack

\* What the code does: a Number without exponent, and a decimal Number,
\* is read back
C15_ReadBack ==
    (last.op = "displayed" /\ (test.number.exponent = None \/ test.number.radix = 10))
        => ReadBack

(***************************************************************************)
(* Escapes, string and character literals: escape_char_parser on one       *)
(* escape, string_lit_parser and char_lit_parser on one literal.           *)
(***************************************************************************)
MaxString == 2

ParseEscape ==
    /\ test.context = "escape"
    /\ RunExpression("escape", escape_char_parser)

ParseString ==
    /\ test.context = "string"
    /\ RunExpression("string", string_lit_parser(FALSE))

ParseChar ==
    /\ test.context = "char"
    /\ RunExpression("char", char_lit_parser(FALSE))

LiteralNext ==
    \/ ParseEscape
    \/ ParseString
    \/ ParseChar

LiteralTest(family, context, body, expected, ender, text) ==
    [family |-> family, context |-> context, body |-> body,
     expected |-> expected, ender |-> ender, text |-> text]

\* Malformed escapes and the diagnostic of each: 2^32 and 0x110000 are
\* beyond the Unicode range, d800, DFFF and dabc are surrogates
Malformed ==
    {<<<<"\\", "u", "{", "1", "0", "0", "0", "0", "0", "0", "0", "0", "}">>,
       "UnicodeOverflow">>,
     <<<<"\\", "u", "{", "1", "1", "0", "0", "0", "0", "}">>, "UnicodeOverflow">>,
     <<<<"\\", "u", "{", "d", "8", "0", "0", "}">>, "InvalidUnicode">>,
     <<<<"\\", "u", "{", "D", "F", "F", "F", "}">>, "InvalidUnicode">>,
     <<<<"\\", "U", "{", "d", "a", "b", "c", "}">>, "InvalidUnicode">>,
     <<<<"\\", "q">>, "InvalidEscape">>,
     <<<<"\\", "a">>, "InvalidEscape">>,
     <<<<"\\", "Z">>, "InvalidEscape">>}

MalformedTests ==
    {LiteralTest("malformed", "escape", m[1], m[2], <<>>, m[1]) : m \in Malformed}
    \cup {LiteralTest("malformed", "string", m[1], m[2], <<"\"">>,
                      <<"\"">> \o before \o m[1] \o <<"\"">>) :
            m \in Malformed, before \in {<<>>, <<"a">>}}
    \cup {LiteralTest("malformed", "char", m[1], m[2], <<"'">>,
                      <<"'">> \o m[1] \o <<"'">>) : m \in Malformed}

\* What a string may hold, as written and as decoded
StringTokens ==
    {<<<<"a">>, "a">>, <<<<" ">>, " ">>, <<<<"'">>, "'">>, <<<<CharE9>>, CharE9>>,
     <<<<CR>>, CR>>,
     <<<<"\\", "\"">>, "\"">>, <<<<"\\", "n">>, NL>>, <<<<"\\", "\\">>, "\\">>,
     <<<<"\\", "0">>, "U+0000">>,
     <<<<"\\", "x", "4", "1">>, "A">>,
     <<<<"\\", "u", "{", "e", "9", "}">>, CharE9>>}

RECURSIVE Written(_)
Written(tokens) ==
    IF tokens = <<>> THEN <<>> ELSE Head(tokens)[1] \o Written(Tail(tokens))

Decoded(tokens) == [i \in 1..Len(tokens) |-> tokens[i][2]]

\* A literal closed by its quote, cut by a newline, cut by the end of input
StringTests ==
    {LiteralTest("string", "string", Decoded(tokens), "", ender,
                 <<"\"">> \o Written(tokens) \o ender) :
        tokens \in SeqsUpTo(StringTokens, MaxString),
        ender \in {<<"\"">>, <<NL>>, <<>>}}

LiteralInit == ExpressionInit(MalformedTests \cup StringTests)

LiteralSpec == LiteralInit /\ [][LiteralNext]_vars

(***************************************************************************)
(* C19.  The escape parser reports the diagnostic of the malformed escape: *)
(* UnicodeOverflow for a \u{...} beyond the Unicode range, InvalidUnicode  *)
(* for a surrogate, InvalidEscape for a backslash and a letter that is no  *)
(* escape; a string or character literal holding such an escape fails with *)
(* that diagnostic.                                                        *)
(***************************************************************************)
C19_EscapeDiagnostic ==
    Parsed("malformed") =>
        /\ ~last.result.ok
        /\ last.result.err.value.kind = test.expected

\* What the code does: the escape parser fails with MissingEscape for each
\* of them, the string literal takes the backslash for a character of the
\* string, the character literal fails with CharLiteralIncomplete
C19_MissingEscape ==
    Parsed("malformed") =>
        LET r == last.result
        IN  CASE test.context = "escape" ->
                    ~r.ok /\ r.err.value.kind = "MissingEscape"
              [] test.context = "string" ->
                    /\ r.ok
                    /\ WholeText(r)
                    /\ r.result.value = SubSeq(test.text, 2, Len(test.text) - 1)
              [] test.context = "char" ->
                    ~r.ok /\ r.err.value.kind = "CharLiteralIncomplete"

(***************************************************************************)
(* C20.  A string literal is an opening quote, escapes or characters other *)
(* than the quote and the newline, and a closing quote: its value is the   *)
(* decoded characters in order, an escaped quote does not end it.  When a  *)
(* newline or the end of input comes before the closing quote,             *)
(* string_lit_parser fails with StringLiteralIncomplete and a span that    *)
(* starts at the opening quote.                                            *)
(***************************************************************************)
C20_StringLiteral ==
    Parsed("string") =>
        LET r == last.result
        IN  IF test.ender = <<"\"">>
            THEN /\ r.ok
                 /\ WholeText(r)
                 /\ r.result.value = test.body
                 /\ r.result.span = Span(0, str_len(test.text))
            ELSE /\ ~r.ok
                 /\ r.err.value.kind = "StringLiteralIncomplete"
                 /\ r.err.span.start = 0

\* `"\"a"` has been read as the two characters `"a`
C20_Witness ==
    /\ Parsed("string")
    /\ test.text = <<"\"", "\\", "\"", "a", "\"">>
    /\ last.result.ok
    /\ last.result.result.value = <<"\"", "a">>

(***************************************************************************)
(* Element lists: a call `f( ... )` and an array literal `[ ... ]` over    *)
(* the same contents, followed by a tail that is no part of the            *)
(* expression.                                                             *)
(***************************************************************************)
\* What stands between the brackets, and the number of its elements when
\* it is a list of expressions separated by single commas (-1 when not)
ListContents ==
    {<<<<>>, 0>>,
     <<<<"a">>, 1>>,
     <<<<"a", ",", "b">>, 2>>,
     <<<<" ", "a", " ", ",", " ", "b", " ">>, 2>>,
     <<<<"a", ",", "b", ",", "c">>, 3>>,
     <<<<" ">>, -1>>,
     <<<<"a", ",">>, -1>>,
     <<<<"a", ",", "b", ",">>, -1>>,
     <<<<"a", ",", ",", "b">>, -1>>,
     <<<<",", "a">>, -1>>,
     <<<<",">>, -1>>,
     <<<<"a", " ", "b">>, -1>>}

ElementNames == <<<<"a">>, <<"b">>, <<"c">>>>

ElementsText(kind, content) == Open(kind) \o content \o Close(kind)

ElementsTests ==
    {[family |-> "elements", kind |-> kind, content |-> content[1],
      count |-> content[2],
      text |-> ElementsText(kind, content[1]) \o tail] :
        kind \in {"array", "call"}, content \in ListContents,
        tail \in {<<>>, <<" ">>, <<";">>}}

ElementsInit == ExpressionInit(ElementsTests)

ElementsSpec == ElementsInit /\ [][ExpressionNext]_vars

\* exprs are the first n of a, b, c
IsElements(exprs, n) ==
    /\ Len(exprs) = n
    /\ \A i \in 1..n : Leaf(exprs[i], ElementNames[i])

\* r is the call or the array of the test, read up to its closing bracket
AcceptedList(r) ==
    /\ r.ok
    /\ r.next.offset = str_len(ElementsText(test.kind, test.content))
    /\ IF test.kind = "array" THEN r.result.e = "Array"
       ELSE /\ r.result.e = "PostfixUnary"
            /\ r.result.operator.value.postfix = "Call"

\* The elements of an accepted list
ListOf(r) ==
    IF test.kind = "array" THEN r.result.v.value
    ELSE r.result.operator.value.v

(***************************************************************************)
(* C21.  An empty element list is accepted, for a call and for an array    *)
(* literal alike, exactly when the brackets directly abut; with anything   *)
(* between the brackets the list holds at least one expression, the        *)
(* elements are separated by single commas, and a trailing or doubled      *)
(* comma is rejected.                                                      *)
(***************************************************************************)
C21_ElementList ==
    Parsed("elements") =>
        LET r == last.result
        IN  IF test.count >= 0
            THEN AcceptedList(r) /\ IsElements(ListOf(r), test.count)
            ELSE ~AcceptedList(r)

\* What the code does: a list of one or more elements is accepted for both;
\* a trailing, doubled or leading comma and a missing comma are rejected
\* for both
C21_NonEmpty ==
    (Parsed("elements") /\ test.content # <<>> /\ test.content # <<" ">>) =>
        LET r == last.result
        IN  IF test.count >= 0
            THEN AcceptedList(r) /\ IsElements(ListOf(r), test.count)
            ELSE ~AcceptedList(r)

\* What the code does: `f()` and `f( )` are calls without argument; `[]`
\* and `[ ]` are no expression
C21_Empty ==
    (Parsed("elements") /\ test.content \in {<<>>, <<" ">>}) =>
        LET r == last.result
        IN  IF test.kind = "call"
            THEN AcceptedList(r) /\ ListOf(r) = <<>>
            ELSE ~r.ok /\ r.err.value.kind = "NoExpression"

(***************************************************************************)
(* Spans: expressions and statements, complete and cut short, with         *)
(* characters of one, two and three bytes; after a parse, Span::concat and *)
(* SpanOf::combine applied to two spans of the answer.                     *)
(***************************************************************************)
SpanTexts ==
    {<<"a", " ", "+", " ", "b", " ", "*", " ", "c">>,
     <<"f", "(", "a", ",", " ", "\"", CharE9, "\"", ")", "[", "0", "]", ".",
       "x">>,
     <<"-", "'", Char5B57, "'">>,
     <<"[", "1", ",", " ", "2", ".", "5", "e", "3", "]">>,
     <<"(", "a", " ", "=", " ", "b", ")">>,
     <<CharE9, Char5B57, " ", "+", " ", "1">>,
     <<"x", ".", CharE9, "(", Char5B57, ")">>,
     <<"\"", "a", "b", "c">>,
     <<"'", CharE9>>,
     <<"\"", CharE9, NL>>,
     <<")">>,
     <<>>,
     <<"1", " ", "+">>,
     <<CharE9, ".">>,
     <<"[", CharE9, ",", " ">>,
     <<"f", "(", CharE9>>,
     <<"i", "f", " ", CharE9, " ", "d", "o", " ", "a", "(", ")", " ", "e",
       "n", "d">>,
     <<"w", "h", "i", "l", "e", " ", "x", " ", "d", "o", " ", "o", "n", "b",
       "r", "e", "a", "k", " ", "\"", Char5B57, "\"", " ", "e", "n", "d">>,
     <<"i", "f", " ", "x", " ", "d", "o">>,
     <<"d", "o", " ", "a", "(", ")", ";", " ", "\"", CharE9, "\"", " ", "e",
       "n", "d">>,
     <<"w", "h", "i", "l", "e", " ", CharE9, " ", "d", "o", " ", "a", "(",
       ")", " ", "o", "n", "b", "r", "e", "a", "k", " ", "o", "n", "b", "r",
       "e", "a", "k", " ", "e", "n", "d">>,
     <<"a", "(", ")", ";", " ", CharE9, " ", "=", " ", Char5B57, NL, "b">>}

SpanTests == {[family |-> "span", text |-> text] : text \in SpanTexts}

SpanInit == ExpressionInit(SpanTests)

RECURSIVE ExpressionSpans(_)
RECURSIVE ExpressionsSpans(_)
RECURSIVE StatementsSpans(_)
RECURSIVE StatementSpans(_)
RECURSIVE IfStmtSpans(_)

\* The spans an Expression carries, itself and below
ExpressionSpans(expr) ==
    CASE expr.e \in {"Ident", "CharLit", "StrLit", "Number"} -> {expr.v.span}
      [] expr.e = "Group" -> {expr.v.span} \cup ExpressionSpans(expr.v.value)
      [] expr.e = "Array" -> {expr.v.span} \cup ExpressionsSpans(expr.v.value)
      [] expr.e = "PrefixUnary" ->
            {expr.operator.span} \cup ExpressionSpans(expr.operand)
      [] expr.e = "PostfixUnary" ->
            {expr.operator.span} \cup ExpressionSpans(expr.operand)
                \cup (CASE expr.operator.value.postfix = "Property" ->
                             {expr.operator.value.v.span}
                        [] expr.operator.value.postfix = "Index" ->
                             ExpressionSpans(expr.operator.value.v)
                        [] expr.operator.value.postfix = "Call" ->
                             ExpressionsSpans(expr.operator.value.v))
      [] expr.e = "Binary" ->
            {expr.operator.span} \cup ExpressionSpans(expr.left)
                \cup ExpressionSpans(expr.right)

ExpressionsSpans(exprs) ==
    UNION {ExpressionSpans(exprs[i]) : i \in 1..Len(exprs)}

StatementsSpans(list) ==
    UNION {StatementSpans(list.stmts[i]) : i \in 1..Len(list.stmts)}

IfStmtSpans(ifstmt) ==
    ExpressionSpans(ifstmt.condition) \cup StatementsSpans(ifstmt.then_block)
        \cup (IF ifstmt.else_block = None THEN {}
              ELSE IF ifstmt.else_block[1].else = "Elif"
              THEN IfStmtSpans(ifstmt.else_block[1].v)
              ELSE StatementsSpans(ifstmt.else_block[1].v))

StatementSpans(stmt) ==
    CASE stmt.s = "Expression" -> ExpressionSpans(stmt.v)
      [] stmt.s = "If" -> IfStmtSpans(stmt.v)
      [] stmt.s = "While" ->
            ExpressionSpans(stmt.v.condition)
                \cup StatementsSpans(stmt.v.while_block)
                \cup (IF stmt.v.break_block = None THEN {}
                      ELSE StatementsSpans(stmt.v.break_block[1]))
                \cup (IF stmt.v.continue_block = None THEN {}
                      ELSE StatementsSpans(stmt.v.continue_block[1]))
      [] stmt.s = "Block" -> StatementsSpans(stmt.v)

\* The spans of what the parse `l` returned: of the AST, or of the diagnostic
ReturnedSpans(l) ==
    IF ~l.result.ok THEN {l.result.err.span}
    ELSE CASE l.op \in {"inline", "multiline"} -> ExpressionSpans(l.result.result)
           [] l.op = "statement" -> StatementSpans(l.result.result)
           [] l.op = "statements" -> StatementsSpans(l.result.result)

\* self.concat(other) and self.combine(other, f) on two spans of the answer
ConcatSpans ==
    /\ last.op \in {"inline", "multiline", "statement", "statements"}
    /\ \E self \in ReturnedSpans(last), other \in ReturnedSpans(last) :
          last' = [op |-> "concat", to |-> 1, self |-> self, other |-> other,
                   result |-> concat(self, other),
                   combined |-> combine(add_value(self, "T"),
                                        add_value(other, "U"), "O")]
    /\ UNCHANGED <<test, source, iter, cursors>>

SpanNext ==
    \/ ParseInline
    \/ ParseMultiline
    \/ ParseStatement
    \/ ParseStatements
    \/ ConcatSpans

SpanSpec == SpanInit /\ [][SpanNext]_vars

\* offset is the start of a character of the buffer, or its end
IsCharBoundary(buffer, offset) ==
    \E i \in 0..Len(buffer) : str_len(SubSeq(buffer, 1, i)) = offset

IsValidSpan(span) ==
    /\ 0 <= span.start
    /\ span.start <= span.end
    /\ span.end <= str_len(source)
    /\ IsCharBoundary(source, span.start)
    /\ IsCharBoundary(source, span.end)

\* span is [min of starts, max of ends) of a and b
IsHull(span, a, b) ==
    /\ span.start \in {a.start, b.start}
    /\ span.end \in {a.end, b.end}
    /\ span.start <= a.start /\ span.start <= b.start
    /\ span.end >= a.end /\ span.end >= b.end

(***************************************************************************)
(* C22.  Every span of a returned AST node or diagnostic satisfies         *)
(* 0 <= start <= end <= length of the buffer, with both bounds on          *)
(* character boundaries; Span::concat and SpanOf::combine of two valid     *)
(* spans give the span [min of starts, max of ends), which is valid and    *)
(* contains both.                                                          *)
(***************************************************************************)
C22_SpanValidity ==
    /\ (Parsed("span") /\ last.op # "concat") =>
            \A span \in ReturnedSpans(last) : IsValidSpan(span)
    /\ (Parsed("span") /\ last.op = "concat") =>
            /\ IsValidSpan(last.self) /\ IsValidSpan(last.other)
            /\ IsHull(last.result, last.self, last.other)
            /\ IsValidSpan(last.result)
            /\ last.combined.span = last.result

\* `f(a, "é")[0].x` has been parsed, and the spans of `(a, "é")` (1..10)
\* and of `.x` (13..15) concatenated to 1..15
C22_Witness ==
    /\ Parsed("span")
    /\ last.op = "concat"
    /\ test.text = <<"f", "(", "a", ",", " ", "\"", CharE9, "\"", ")", "[", "0", "]", ".", "x">>
    /\ last.self = Span(1, 10)
    /\ last.other = Span(13, 15)
    /\ last.result = Span(1, 15)

(***************************************************************************)
(* Skip: skip_parser in both modes on texts made of blanks, newlines,      *)
(* comment openers and closers and other characters, and skip_parser once  *)
(* more at the cursor it returned.                                         *)
(***************************************************************************)
MaxSkipTokens == 3

SkipTokens == {<<" ">>, <<NL>>, <<"/", "/">>, <<"/", "*">>, <<"*", "/">>,
               <<"a">>, <<"/">>, <<CharE9>>}

RECURSIVE Flatten(_)
Flatten(tokens) ==
    IF tokens = <<>> THEN <<>> ELSE Head(tokens) \o Flatten(Tail(tokens))

SkipTests ==
    {[family |-> "skip", text |-> Flatten(tokens) \o tail] :
        tokens \in SeqsUpTo(SkipTokens, MaxSkipTokens),
        tail \in {<<>>, <<"a">>, <<NL, " ", "a">>}}

SkipInit == ExpressionInit(SkipTests)

SkipInline == RunExpression("skip inline", skip_parser(FALSE))

SkipMultiline == RunExpression("skip multiline", skip_parser(TRUE))

\* skip_parser in the same mode at the cursor the first run returned
SkipAgain ==
    /\ last.op \in {"skip inline", "skip multiline"}
    /\ last.result.ok
    /\ last' = [op |-> "skip again", to |-> 1, at |-> cursors[1],
                mode |-> last.op, first |-> last.result,
                source0 |-> source, iter0 |-> iter,
                result |-> parse(skip_parser(last.op = "skip multiline"),
                                 Cursor(1))]
    /\ LET r     == last'.result
           after == reclone(Cursor(1), r)
       IN  /\ source' = after.source
           /\ iter' = after.iter
           /\ cursors' = IF r.ok THEN [cursors EXCEPT ![1] = r.next.offset]
                         ELSE cursors
    /\ UNCHANGED test

SkipNext ==
    \/ SkipInline
    \/ SkipMultiline
    \/ SkipAgain

SkipSpec == SkipInit /\ [][SkipNext]_vars

\* Whitespace as the mode defines it
IsBlank(ch, skip_newline) == ch \in {" ", TAB, CR} \/ (skip_newline /\ ch = NL)

\* The index of the first newline of text from index i on, of the character
\* behind the first `*/` from index i on; Len(text) + 1 when there is none
LineEnd(text, i) ==
    LET found == {j \in i..Len(text) : text[j] = NL}
    IN  IF found = {} THEN Len(text) + 1
        ELSE CHOOSE j \in found : \A k \in found : j <= k

BlockEnd(text, i) ==
    LET found == {j \in i..(Len(text) - 1) : text[j] = "*" /\ text[j + 1] = "/"}
    IN  IF found = {} THEN Len(text) + 1
        ELSE (CHOOSE j \in found : \A k \in found : j <= k) + 2

\* The index of the first character from index i on that starts neither
\* whitespace nor a comment
RECURSIVE SkipEnd(_, _, _)
SkipEnd(text, i, skip_newline) ==
    IF i > Len(text) THEN i
    ELSE IF IsBlank(text[i], skip_newline) THEN SkipEnd(text, i + 1, skip_newline)
    ELSE IF i < Len(text) /\ text[i] = "/" /\ text[i + 1] = "/"
    THEN SkipEnd(text, LineEnd(text, i + 2), skip_newline)
    ELSE IF i < Len(text) /\ text[i] = "/" /\ text[i + 1] = "*"
    THEN SkipEnd(text, BlockEnd(text, i + 2), skip_newline)
    ELSE i

\* The byte length of the maximal prefix of whitespace and comments
SkippedLen(text, skip_newline) ==
    str_len(SubSeq(text, 1, SkipEnd(text, 1, skip_newline) - 1))

(***************************************************************************)
(* C23.  Skip idempotence: in both modes, skip run again at the cursor     *)
(* that skip returned consumes nothing; skip stops at the end of input or  *)
(* at a character that starts neither whitespace of the mode nor a         *)
(* comment.                                                                *)
(***************************************************************************)
C23_SkipIdempotent ==
    (Parsed("skip") /\ last.op = "skip again") =>
        /\ last.result.ok
        /\ last.result.next.offset = last.at
        /\ last.at = last.first.next.offset
        /\ cursors[1] = last.at

\* After `/*a*/` and a newline, blank and a: the second skip stays at
\* offset 5 inline
C23_Witness ==
    /\ Parsed("skip")
    /\ last.op = "skip again"
    /\ last.mode = "skip inline"
    /\ test.text = <<"/", "*", "a", "*", "/", NL, " ", "a">>
    /\ last.at = 5
    /\ last.result.ok
    /\ last.result.next.offset = 5

(***************************************************************************)
(* C24.  skip never fails and consumes exactly the maximal prefix made of  *)
(* whitespace, line comments and block comments: a line comment runs up to *)
(* the next newline (not included) or the end of input, a block comment    *)
(* through its closing `*/`, an unterminated block comment to the end of   *)
(* input without a diagnostic; the first character after the prefix is     *)
(* left unconsumed.                                                        *)
(***************************************************************************)
C24_SkipMaximal ==
    (Parsed("skip") /\ last.op \in {"skip inline", "skip multiline"}) =>
        /\ last.result.ok
        /\ last.result.next.offset
              = SkippedLen(test.text, last.op = "skip multiline")
        /\ cursors[1] = last.result.next.offset
        /\ last.result.result.span
              = Span(0, SkippedLen(test.text, last.op = "skip multiline"))

\* The unterminated `/*a` before a newline, blank and a has been skipped to
\* the end of input, offset 6, in inline mode
C24_Witness ==
    /\ Parsed("skip")
    /\ last.op = "skip inline"
    /\ test.text = <<"/", "*", "a", NL, " ", "a">>
    /\ last.result.ok
    /\ last.result.next.offset = 6

(***************************************************************************)
(* Integers: integer_parser(radix) in the four radixes on every text of up *)
(* to MaxDigits characters out of digits, letters, `_` and `+`.            *)
(***************************************************************************)
MaxDigits == 4

DigitChars == {"1", "7", "9", "a", "_", "+"}

IntegerTests ==
    {[family |-> "integer", radix |-> radix, text |-> text] :
        radix \in Radixes, text \in SeqsUpTo(DigitChars, MaxDigits)}

IntegerInit == ExpressionInit(IntegerTests)

ParseInteger == RunExpression("integer", integer_parser(test.radix))

IntegerNext ==
    \/ ParseInteger

IntegerSpec == IntegerInit /\ [][IntegerNext]_vars

IsDigit(ch, radix) == to_digit(ch, radix) # None

\* The lengths of the prefixes of text that start with a digit, are made of
\* digits and `_`, and have every `_` directly between two digits
DigitRuns(text, radix) ==
    {n \in 1..Len(text) :
        /\ IsDigit(text[1], radix)
        /\ \A i \in 1..n :
              \/ IsDigit(text[i], radix)
              \/ /\ text[i] = "_"
                 /\ 1 < i
                 /\ i < n
                 /\ IsDigit(text[i - 1], radix)
                 /\ IsDigit(text[i + 1], radix)}

LongestRun(text, radix) ==
    LET runs == DigitRuns(text, radix)
    IN  CHOOSE n \in runs : \A m \in runs : m <= n

(***************************************************************************)
(* C25.  integer_parser(radix) fails with ExpectedInt, consuming nothing,  *)
(* unless the first character is a digit of the radix; otherwise it        *)
(* consumes the longest run in which every `_` stands directly between two *)
(* digits, and its value is the base-radix number of the consumed digits.  *)
(***************************************************************************)
C25_Integer ==
    Parsed("integer") =>
        LET r == last.result
        IN  IF DigitRuns(test.text, test.radix) = {}
            THEN /\ ~r.ok
                 /\ r.err.value.kind = "ExpectedInt"
                 /\ cursors[1] = 0
            ELSE LET n == LongestRun(test.text, test.radix)
                 IN  /\ r.ok
                     /\ r.next.offset = n
                     /\ cursors[1] = n
                     /\ r.result.span = Span(0, n)
                     /\ r.result.value
                           = DigitsValue(SubSeq(test.text, 1, n), test.radix)

\* `1__7` in radix 8: only the 1 is consumed; `1_7_` in radix 8: three
\* characters, value 15; `_17` fails
C25_Witness ==
    /\ Parsed("integer")
    /\ test.radix = 8
    /\ test.text = <<"1", "_", "7", "_">>
    /\ last.result.ok
    /\ last.result.next.offset = 3
    /\ last.result.result.value = BigUint(15)

C25_Rejected ==
    /\ Parsed("integer")
    /\ test.radix = 8
    /\ test.text = <<"_", "1", "7">>
    /\ ~last.result.ok

(***************************************************************************)
(* Radix selection: number_parser on texts that start with nothing, `0`,   *)
(* `0b`, `0o`, `0x` or `0X`, followed by digits, letters, points and       *)
(* exponent markers.                                                       *)
(***************************************************************************)
MaxBody == 3

BodyChars == {"1", "7", "9", "a", ".", "e", "p"}

Bodies ==
    SeqsUpTo(BodyChars, MaxBody)
        \cup {<<"1", ".", "1", "e", "1", "1">>, <<"1", "e", "1", "1">>,
              <<"a", ".", "a", "p", "1", "1">>, <<"1", "p", "1", "1">>,
              <<"7", ".", "7", "e", "7", "7">>, <<"3">>}

Prefixes == {<<>>, <<"0">>, <<"0", "b">>, <<"0", "o">>, <<"0", "x">>,
             <<"0", "X">>}

RadixTests ==
    {[family |-> "radix", text |-> prefix \o body] :
        prefix \in Prefixes, body \in Bodies}

RadixInit == ExpressionInit(RadixTests)

RadixSpec == RadixInit /\ [][NumberNext]_vars

RadixOf(ch) == CASE ch = "b" -> 2 [] ch = "o" -> 8 [] ch = "x" -> 16

\* `0b`, `0o`, `0x` in front of a digit of that radix
HasRadixPrefix(text) ==
    /\ Len(text) >= 3
    /\ text[1] = "0"
    /\ text[2] \in {"b", "o", "x"}
    /\ IsDigit(text[3], RadixOf(text[2]))

SelectedRadix(text) == IF HasRadixPrefix(text) THEN RadixOf(text[2]) ELSE 10

\* The token exponent_parser(radix) reads in the text from the given offset
TokenFrom(offset, radix) ==
    parse(exponent_parser(radix), Scanner(source, iter, offset))

(***************************************************************************)
(* C26.  A literal that starts with `0b`, `0o` or `0x` and a digit of that *)
(* radix is decoded in radix 2, 8 or 16, with its integer, fraction and    *)
(* exponent digits read in that radix; a literal whose `0` is followed by  *)
(* none of b, o, x is one radix-10 token beginning with 0; every other     *)
(* literal is radix 10.                                                    *)
(***************************************************************************)
C26_RadixSelection ==
    Parsed("radix") =>
        LET r     == last.result
            radix == SelectedRadix(test.text)
            start == IF HasRadixPrefix(test.text) THEN 2 ELSE 0
        IN  IF test.text = <<>> \/ ~IsDigit(test.text[1], 10)
            THEN ~r.ok
            ELSE /\ r.ok
                 /\ r.result.value.radix = radix
                 /\ r.result.span.start = 0
                 /\ LET token == TokenFrom(start, radix)
                    IN  /\ token.ok
                        /\ r.result.span.end = token.result.span.end
                        /\ r.next.offset = token.next.offset
                        /\ r.result.value = token.result.value
                 /\ (test.text = <<"0", "3">>) =>
                        /\ r.result.value.integer = BigUint(3)
                        /\ r.result.span = Span(0, 2)
                 /\ (test.text = <<"0", "b", "1", ".", "1", "e", "1", "1">>) =>
                        /\ r.result.value.integer = BigUint(3)
                        /\ r.result.value.exponent = Some(2)
                 /\ (test.text = <<"0", "x", "a", ".", "a", "p", "1", "1">>) =>
                        /\ r.result.value.integer = BigUint(170)
                        /\ r.result.value.exponent = Some(16)
                 /\ (test.text = <<"0", "x", "p">>) =>
                        /\ r.result.value.integer = BigUint(0)
                        /\ r.result.span = Span(0, 1)

\* `0o7.7e77`: radix 8, integer 0o77 = 63, exponent 0o77 - 1 = 62
C26_Witness ==
    /\ Parsed("radix")
    /\ test.text = <<"0", "o", "7", ".", "7", "e", "7", "7">>
    /\ last.result.ok
    /\ last.result.result.value = NumberToken(8, BigUint(63), Some(62))

\* `03` is one radix-10 token of value 3
C26_LeadingZero ==
    /\ Parsed("radix")
    /\ test.text = <<"0", "3">>
    /\ last.result.ok
    /\ last.result.result.value = NumberToken(10, BigUint(3), None)

(***************************************************************************)
(* Postfix chains: the primary `a` followed by up to MaxPostfix postfix    *)
(* elements in every mix, or by one of four longer chains, and then by     *)
(* something no postfix element starts with or that starts one without     *)
(* completing it.                                                          *)
(***************************************************************************)
MaxPostfix == 2

PostfixElements ==
    {[kind |-> "Property", args |-> 0, text |-> <<".", "b">>],
     [kind |-> "Property", args |-> 0, text |-> <<" ", ".", "b">>],
     [kind |-> "Index", args |-> 0, text |-> <<"[", "c", "]">>],
     [kind |-> "Call", args |-> 0, text |-> <<"(", ")">>],
     [kind |-> "Call", args |-> 1, text |-> <<"(", "d", ")">>]}

PostfixTails == {<<>>, <<".">>, <<"[">>, <<"(", "d">>, <<" ", "1">>, <<";">>}

RECURSIVE PostfixText(_)
PostfixText(chain) ==
    IF chain = <<>> THEN <<>> ELSE Head(chain).text \o PostfixText(Tail(chain))

PropertyElement == [kind |-> "Property", args |-> 0, text |-> <<".", "b">>]
IndexElement == [kind |-> "Index", args |-> 0, text |-> <<"[", "c", "]">>]
CallElement == [kind |-> "Call", args |-> 1, text |-> <<"(", "d", ")">>]

LongChains ==
    {<<CallElement, PropertyElement, IndexElement>>,
     <<PropertyElement, CallElement, CallElement, IndexElement>>,
     <<IndexElement, IndexElement, PropertyElement, CallElement>>,
     <<CallElement, IndexElement, PropertyElement, PropertyElement,
       CallElement>>}

PostfixTests ==
    {[family |-> "postfix", chain |-> chain, tail |-> tail,
      text |-> <<"a">> \o PostfixText(chain) \o tail] :
        chain \in SeqsUpTo(PostfixElements, MaxPostfix) \cup LongChains,
        tail \in PostfixTails}

PostfixInit == ExpressionInit(PostfixTests)

UnaryInline == RunExpression("inline", unary_expression_parser(FALSE))

UnaryMultiline == RunExpression("multiline", unary_expression_parser(TRUE))

PostfixNext ==
    \/ UnaryInline
    \/ UnaryMultiline

PostfixSpec == PostfixInit /\ [][PostfixNext]_vars

\* The operator is the postfix element written in the text
IsElement(operator, element, end) ==
    /\ operator.span.end = end
    /\ operator.value.postfix = element.kind
    /\ CASE element.kind = "Property" -> operator.value.v.value = <<"b">>
         [] element.kind = "Index" -> Leaf(operator.value.v, <<"c">>)
         [] element.kind = "Call" ->
                /\ Len(operator.value.v) = element.args
                /\ \A i \in 1..element.args : Leaf(operator.value.v[i], <<"d">>)

\* expr is PostfixUnary(... PostfixUnary(a, chain[1]) ..., chain[n])
RECURSIVE IsPostfixChain(_, _, _)
IsPostfixChain(expr, chain, n) ==
    IF n = 0 THEN Leaf(expr, <<"a">>)
    ELSE /\ expr.e = "PostfixUnary"
         /\ IsElement(expr.operator, chain[n],
                      1 + str_len(PostfixText(SubSeq(chain, 1, n))))
         /\ IsPostfixChain(expr.operand, chain, n - 1)

(***************************************************************************)
(* C27.  The postfix chain left-folds: a primary p followed by postfix     *)
(* elements o1 ... on (property, index, call in any mix) gives             *)
(* PostfixUnary(... PostfixUnary(PostfixUnary(p, o1), o2) ..., on), every  *)
(* element applied in source order and none skipped; the chain stops       *)
(* without error at the first position where no postfix element parses.    *)
(***************************************************************************)
C27_PostfixChain ==
    Parsed("postfix") =>
        /\ last.result.ok
        /\ IsPostfixChain(last.result.result, test.chain, Len(test.chain))
        /\ last.result.next.offset
              = 1 + str_len(PostfixText(test.chain))
        /\ cursors[1] = last.result.next.offset

\* `a(d).b[c]` followed by an open bracket: three elements, cursor 9
C27_Witness ==
    /\ Parsed("postfix")
    /\ last.op = "inline"
    /\ test.text = <<"a", "(", "d", ")", ".", "b", "[", "c", "]", "[">>
    /\ last.result.ok
    /\ last.result.next.offset = 9
    /\ last.result.result.e = "PostfixUnary"
    /\ last.result.result.operator.value.postfix = "Index"
    /\ last.result.result.operand.operator.value.postfix = "Property"
    /\ last.result.result.operand.operand.operator.value.postfix = "Call"
    /\ Leaf(last.result.result.operand.operand.operand, <<"a">>)

(***************************************************************************)
(* Forward progress: one pass of the loop of Parser::fold with each step   *)
(* parser the grammar hands to fold, at every offset of the texts; and     *)
(* statements_parser run for at most 2^MaxRun steps of the engine.         *)
(***************************************************************************)
MaxRun == 15

ProgressTexts ==
    {
     <<"1", "_", "0", "_", "_", "2">>,
     <<"a", ".", "b", "(", "c", ")", "[", "d", "]", ".">>,
     <<"a", " ", "+", " ", "b", " ", "*", " ", "c", " ", "-">>,
     <<"f", "(", "a", ",", " ", "b", ",", ")">>,
     <<"\"", "a", "\\", "n", "\"", "x">>,
     <<"/", "/", " ", "c", NL, ";", "x">>,
     <<"/", "*", " ", "c", " ", "*", "/", " ", NL, ";">>,
     <<"a", ";", " ", "b", NL, "c", ";", ";">>,
     <<"x", " ", "=", " ", "y", " ", "o", "r", " ", "z">>,
     <<"i", "f", " ", "a", " ", "d", "o", " ", "b", " ", "e", "n", "d">>,
     <<"/", "*", " ", "c">>,
     <<"\"", "a">>,
     <<CharE9, "_", "1", " ", CharE9>>,
     <<" ", NL, " ", ";", NL>>,
     <<"-", "a", "(", "b", ")", "(", "c", ")">>}

ProgressTests == {[family |-> "progress", text |-> text] : text \in ProgressTexts}

ProgressInit == ExpressionInit(ProgressTests)

\* The step parsers handed to fold: `move || ...` of integer_parser,
\* string_lit_parser, line_comment_parser, block_comment_parser, skip_parser,
\* ident_parser, postfix_unary_parser, l_binary_parser, args_parser and
\* statements_parser
FoldSteps ==
    {Closure("primitive", "integer_step", <<10>>),
     Closure("primitive", "integer_step", <<16>>),
     Closure("primitive", "string_step", <<>>),
     Closure("primitive", "char_match", <<"not_nl">>),
     Closure("primitive", "block_comment_step", <<>>),
     Closure("primitive", "char_match", <<"is_ident_part">>),
     Closure("statement", "stmts_step", <<>>)}
    \cup UNION {
        {Closure("primitive", "one_of", <<skip_newline>>),
         Closure("unary", "postfix_step", <<skip_newline>>),
         Closure("binary", "l_step",
                 <<Level("unary_expression_parser", skip_newline),
                   Operators(skip_newline, <<<<"*">>, <<"/">>, <<"%">>>>)>>),
         Closure("binary", "l_step",
                 <<Level("product_parser", skip_newline),
                   Operators(skip_newline, <<<<"+">>, <<"-">>>>)>>),
         Closure("primary", "args_step", <<skip_newline>>)} :
        skip_newline \in BOOLEAN}

\* One pass of the loop of fold at a cursor that Scanner.next has set:
\* parser().parse(scanner.clone()), and scanner = next when it succeeds
FoldStep(step) ==
    /\ last.op \in {"new", "next"}
    /\ last' = [op |-> "step", to |-> 1, at |-> cursors[1], step |-> step,
                result |-> parse(Call(step, <<>>), Cursor(1))]
    /\ LET r     == last'.result
           after == reclone(Cursor(1), r)
       IN  /\ source' = after.source
           /\ iter' = after.iter
           /\ cursors' = IF r.ok THEN [cursors EXCEPT ![1] = r.next.offset]
                         ELSE cursors
    /\ UNCHANGED test

\* statements_parser on the whole text, stopped after 2^MaxRun steps
RunStatements ==
    /\ last.op = "new"
    /\ last' = [op |-> "run", to |-> 1, at |-> cursors[1],
                run |-> Steps(Enter(statements_parser, Cursor(1), <<>>), MaxRun)]
    /\ LET m == last'.run
       IN  IF Finished(m)
           THEN LET after == reclone(Cursor(1), m.result)
                IN  /\ source' = after.source
                    /\ iter' = after.iter
                    /\ cursors' = IF m.result.ok
                                  THEN [cursors EXCEPT ![1] = m.result.next.offset]
                                  ELSE cursors
           ELSE UNCHANGED <<source, iter, cursors>>
    /\ UNCHANGED test

ProgressNext ==
    \/ \E step \in FoldSteps : FoldStep(step)
    \/ Advance
    \/ RunStatements

ProgressSpec == ProgressInit /\ [][ProgressNext]_vars

(***************************************************************************)
(* C28.  Every step parser handed to fold strictly increases the cursor    *)
(* offset whenever it succeeds, so no fold loop iterates without consuming *)
(* input, and the parse of a finite input terminates.                      *)
(***************************************************************************)
C28_ForwardProgress ==
    /\ (test.family = "progress" /\ last.op = "step" /\ last.result.ok) =>
          /\ last.result.next.offset > last.at
          /\ cursors[1] = last.result.next.offset
    /\ (test.family = "progress" /\ last.op = "run") => Finished(last.run)

\* The step of statements_parser has taken `b` and the newline behind it
\* from offset 2 of `a; b`, newline, `c;;`
C28_Witness ==
    /\ test.family = "progress"
    /\ test.text = <<"a", ";", " ", "b", NL, "c", ";", ";">>
    /\ last.op = "step"
    /\ last.step.k = "stmts_step"
    /\ last.at = 2
    /\ last.result.ok
    /\ last.result.next.offset = 5

\* statements_parser has come to the end of `a; b`, newline, `c;;`
C28_Terminated ==
    /\ test.family = "progress"
    /\ test.text = <<"a", ";", " ", "b", NL, "c", ";", ";">>
    /\ last.op = "run"
    /\ Finished(last.run)
    /\ last.run.result.ok
    /\ last.run.result.next.offset = 8

(***************************************************************************)
(* The shared buffer: NumCursors clones of the scanner on a known input,   *)
(* read with Scanner.next, matched against strings, and handed to the step *)
(* parsers of the grammar, which look ahead and backtrack.                 *)
(***************************************************************************)
BufferInputs ==
    ScanInputs \cup {<<"/", "a", Char5B57>>, <<"a", "/", "*">>,
                     <<"a", ".", "a">>, <<" ", "/", "/">>}

BufferTests == {[family |-> "buffer", text |-> input] : input \in BufferInputs}

BufferInit == ExpressionInit(BufferTests)

\* The step parsers that look ahead for `//`, `/*`, `*/`, `.`, `(` and `[`
LookaheadSteps ==
    {step \in FoldSteps :
        step.k \in {"one_of", "block_comment_step", "postfix_step"}}

BufferNext ==
    \/ \E i, j \in 1..NumCursors : DoClone(i, j)
    \/ \E i \in 1..NumCursors : DoNext(i)
    \/ \E i \in 1..NumCursors, string \in ScanStrings : DoStringEq(i, string)
    \/ \E step \in LookaheadSteps : FoldStep(step)

BufferSpec == BufferInit /\ [][BufferNext]_vars

\* The characters pulled so far from the iterator over the input
Pulled(input, it) == SubSeq(input, 1, Len(input) - Len(it))

(***************************************************************************)
(* C29.  The shared buffer is exactly the sequence of characters pulled so *)
(* far from the iterator, in pull order, each appended once, whether       *)
(* Scanner.next or the look-ahead of string matching pulled it, through    *)
(* whichever clone, before or after a backtrack; reading at an offset      *)
(* gives the same character from every clone at every time.                *)
(***************************************************************************)
C29_SharedBuffer ==
    test.family = "buffer" =>
        /\ Len(iter) <= Len(test.text)
        /\ iter = SubSeq(test.text, Len(test.text) - Len(iter) + 1,
                         Len(test.text))
        /\ source = Pulled(test.text, iter)
        /\ \A i \in 1..NumCursors : cursors[i] <= str_len(source)
        /\ (last.op = "next" /\ last.some) =>
              last.ch = first_char_from(test.text, last.at)
        /\ (last.op = "next" /\ ~last.some) =>
              first_char_from(test.text, last.at) = <<>>

\* After a look-ahead that pulled `/` and `a` and left both clones at
\* offset 0, the second clone reads `/` at offset 0
C29_Witness ==
    /\ test.family = "buffer"
    /\ test.text = <<"/", "a", Char5B57>>
    /\ last.op = "next"
    /\ last.to = 2
    /\ last.at = 0
    /\ last.source0 = <<"/", "a">>
    /\ last.ch = <<"/">>
    /\ cursors[1] = 0
    /\ iter = <<Char5B57>>

\* A step parser has failed after its look-ahead pulled two characters
C29_Backtracked ==
    /\ test.family = "buffer"
    /\ last.op = "step"
    /\ ~last.result.ok
    /\ cursors[1] = 0
    /\ source = <<"/", "a">>

(***************************************************************************)
(* Keyword statements: if, while and do-block statements, complete and     *)
(* with one defect (no `do`, no `end`, no condition, a clause or hook out  *)
(* of place or given twice, the keyword alone), given to statement_parser  *)
(* and to statements_parser.                                               *)
(***************************************************************************)
KeywordWords(keyword, defect) ==
    LET head == IF keyword = KwIf THEN KwIf ELSE KwWhile
        out  == IF keyword = KwIf THEN <<KwElse, <<"c">>, KwElif, <<"d">>, KwDo,
                                         <<"e">>, KwEnd>>
                ELSE <<KwOnbreak, <<"c">>, KwOnbreak, <<"d">>, KwEnd>>
        twice == IF keyword = KwIf THEN <<KwElse, <<"c">>, KwElse, <<"d">>, KwEnd>>
                 ELSE <<KwOncontinue, <<"c">>, KwOncontinue, <<"d">>, KwEnd>>
    IN  IF keyword = KwDo
        THEN CASE defect = "none" -> <<KwDo, <<"a">>, KwEnd>>
               [] defect = "end" -> <<KwDo, <<"a">>>>
               [] defect = "alone" -> <<KwDo>>
        ELSE CASE defect = "none" -> <<head, <<"a">>, KwDo, <<"b">>, KwEnd>>
               [] defect = "do" -> <<head, <<"a">>, <<"b">>, KwEnd>>
               [] defect = "end" -> <<head, <<"a">>, KwDo, <<"b">>>>
               [] defect = "condition" -> <<head, KwDo, <<"b">>, KwEnd>>
               [] defect = "out of place" ->
                      <<head, <<"a">>, KwDo, <<"b">>>> \o out
               [] defect = "twice" -> <<head, <<"a">>, KwDo, <<"b">>>> \o twice
               [] defect = "alone" -> <<head>>

Defects(keyword) ==
    IF keyword = KwDo THEN {"none", "end", "alone"}
    ELSE {"none", "do", "end", "condition", "out of place", "twice", "alone"}

RECURSIVE JoinWords(_, _)
JoinWords(words, gap) ==
    IF Len(words) = 1 THEN words[1]
    ELSE words[1] \o gap \o JoinWords(Tail(words), gap)

KeywordCases ==
    UNION {{<<keyword, defect>> : defect \in Defects(keyword)} :
              keyword \in {KwIf, KwWhile, KwDo}}

KeywordTests ==
    {[family |-> "keyword", keyword |-> case[1], defect |-> case[2],
      text |-> JoinWords(KeywordWords(case[1], case[2]), gap)] :
        case \in KeywordCases, gap \in {<<" ">>, <<NL>>, <<" ", NL, TAB>>}}

KeywordInit == ExpressionInit(KeywordTests)

KeywordSpec == KeywordInit /\ [][StatementNext]_vars

\* Statement::Expression of the keyword read as an identifier
IsKeywordExpression(stmt, keyword) ==
    /\ stmt.s = "Expression"
    /\ Leaf(stmt.v, keyword)

(***************************************************************************)
(* C30.  When the first token is if, while or do and the if, while or      *)
(* do-block parser fails, statement_parser fails with a diagnostic; it     *)
(* never answers Statement::Expression of the keyword read as an           *)
(* identifier.                                                             *)
(***************************************************************************)
C30_NoFallThrough ==
    (Parsed("keyword") /\ last.op = "statement") =>
        /\ test.defect # "none" => ~last.result.ok
        /\ last.result.ok =>
              ~IsKeywordExpression(last.result.result, test.keyword)

\* What statement_parser does: a complete statement is answered as If, While
\* or Block; with a defect the answer is Ok, the statement is the keyword as
\* an identifier and the cursor stands behind the keyword
C30_FallsThrough ==
    (Parsed("keyword") /\ last.op = "statement") =>
        /\ last.result.ok
        /\ IF test.defect = "none"
           THEN /\ last.result.result.s
                      = (CASE test.keyword = KwIf -> "If"
                           [] test.keyword = KwWhile -> "While"
                           [] test.keyword = KwDo -> "Block")
                /\ WholeText(last.result)
           ELSE /\ IsKeywordExpression(last.result.result, test.keyword)
                /\ last.result.next.offset = Len(test.keyword)

\* `while a do b onbreak c onbreak d end` has been answered as the
\* expression statement `while`
C30_Witness ==
    /\ Parsed("keyword")
    /\ last.op = "statement"
    /\ test.keyword = KwWhile
    /\ test.defect = "out of place"
    /\ last.result.ok
    /\ IsKeywordExpression(last.result.result, KwWhile)
    /\ last.result.next.offset = 5

=============================================================================
